---- MODULE Spec2Model ----
(***************************************************************************)
(* Model of the WorkspaceDO durable object of the cloud worker             *)
(* (packages/cloud-worker/src/durable-objects/workspace.ts): the sandbox   *)
(* session lifecycle (create / heartbeat / terminate / alarm sweep) and    *)
(* the sync protocol (WebSocket commands, responses and broadcasts); of   *)
(* the clients' connection managers, CloudConnection                       *)
(* (packages/shared/src/storage/cloud/connection.ts) and WorkerBridge      *)
(* (apps/electron/src/main/worker-bridge.ts); and of the control socket of *)
(* the BridgeDurableObject broker.                                         *)
(*                                                                         *)
(* Time is counted in minutes and every stored timestamp is kept relative  *)
(* to the current instant: Date.now() is always 0, and the passing of time *)
(* (Tick) moves every stored timestamp back by the elapsed minutes.  A     *)
(* timestamp stops moving once it is so far in the past that no comparison *)
(* of the code can tell it from an older one.                              *)
(***************************************************************************)
EXTENDS Integers, Sequences, FiniteSets, TLC

\* ---------------------------------------------------------------------
\* Program constants (minutes)
\* ---------------------------------------------------------------------
IDLE_TTL == 30
ALARM_PERIOD == 1
EXPIRED_GRACE == 5

\* Date.now(), the origin of the relative timestamps.
now == 0

\* ---------------------------------------------------------------------
\* Bounds of the model
\* ---------------------------------------------------------------------
\* minutes that pass in one Tick
TimeStep == 5
\* longest time a sandbox.destroy() awaited by the sweep stays pending
MaxAwait == 5
MaxSessions == 2
MaxDestroy == 2
MaxSandboxConns == 1
MaxConns == 3
\* statuses:save commands followed in a run.
MaxSaves == 3
\* Events of an execute stream followed.
MaxEvents == 3
\* CloudStorageProvider objects and overlapping getProvider calls followed.
MaxProviders == 3
MaxCalls == 2
\* Milliseconds that pass in one FileTick, and the last time followed.
FileStep == 500
MaxFileNow == 1500

SessionIds == 1..MaxSessions
ConnIds == 1..MaxConns
SandboxConnIds == 1..MaxSandboxConns
NoSession == 0
EncryptionKeys == {"k1", "k2"}
RepoKeys == {"o/r"}
Branches == {"main", "dev"}
SessionKeys == {"a"}
SessionNames == {"n1", "n2"}
SdkIds == {"sdk1"}

\* The oldest row timestamp the sweep can tell from an older one.
RowFloor == 0 - (IDLE_TTL + EXPIRED_GRACE + MaxAwait + TimeStep)

Max(a, b) == IF a >= b THEN a ELSE b
Min(S) == CHOOSE x \in S : \A y \in S : x <= y

\* A stored timestamp t after d minutes have passed, not older than floor.
Shift(t, d, floor) == Max(t - d, floor)

VARIABLES
  ENCRYPTION_KEY,
  projects,
  sandbox_sessions,
  alarmAt,
  alarmRun,
  createRun,
  createResult,
  terminateRun,
  destroyCalls,
  webSockets,
  sessions,
  sent

\* CloudConnection: its fields (conn), the WebSocket objects it created
\* (sockets), the promises send() returned (promises), the number of
\* connection attempts that failed in a row (failures) and the listener
\* dispatch of the last handler (notified).
VARIABLES conn, sockets, promises, failures, notified

\* WorkerBridge: its fields (bridge) and the WebSocket objects it created.
VARIABLES bridge, bridgeSockets

\* BridgeDurableObject: its clients map and the frames its last handler sent;
\* the query requests with their pendingQueries entries and timers (queries)
\* and the response of the last /action request (brokerResponse).
VARIABLES clients, brokerSent, queries, brokerResponse

\* WorkspaceDO, REST side: the response of the last REST request
\* (restResponse: status 0 before the first one) and the row of the statuses
\* table with id 'config', absent or holding a config (statuses).  deleted
\* records history: the ids whose sessions row was deleted and not written
\* since; statusLog, the statuses:save commands carried out, each with the
\* row it left and the event it broadcast.
VARIABLES restResponse, statuses, deleted, statusLog

\* WorkspaceDO, execute requests: per sandbox connection, where the handler
\* of the request stands (pc), the events its stream has delivered (arrived)
\* and the frames it has sent to the socket (out).
VARIABLES execRun

\* The file worker (cloud-worker index.ts): the keys of the FILES bucket,
\* Date.now() in milliseconds, and the last request with its response.
VARIABLES FILES, fileNow, fileResponse

\* CloudSyncManager, for one cloud workspace id: the entry of its providers
\* map (0: none), the CloudStorageProvider objects created, the getProvider
\* calls and the disconnect call with the point they have reached.
VARIABLES providers, providerObjects, getProviderCalls, disconnectCall

connVars == <<conn, sockets, promises, failures, notified>>
bridgeVars == <<bridge, bridgeSockets>>
brokerVars == <<clients, brokerSent, queries, brokerResponse>>
clientVars == <<connVars, bridgeVars, brokerVars>>
fileVars == <<FILES, fileNow, fileResponse>>
managerVars == <<providers, providerObjects, getProviderCalls, disconnectCall>>
otherVars == <<fileVars, managerVars>>
extraVars == <<restResponse, statuses, deleted, statusLog, execRun, otherVars>>
workspaceVars == <<ENCRYPTION_KEY, projects, sandbox_sessions, alarmAt, alarmRun,
                   createRun, createResult, terminateRun, destroyCalls, webSockets,
                   sessions, sent, extraVars>>

vars == <<ENCRYPTION_KEY, projects, sandbox_sessions, alarmAt, alarmRun,
          createRun, createResult, terminateRun, destroyCalls, webSockets,
          sessions, sent, conn, sockets, promises, failures, notified,
          bridge, bridgeSockets, clients, brokerSent, queries, brokerResponse,
          restResponse, statuses,
          deleted, statusLog, execRun, FILES, fileNow, fileResponse,
          providers, providerObjects, getProviderCalls, disconnectCall>>

\* ---------------------------------------------------------------------
\* Credential cipher (utils/encryption.ts): AES-256-GCM.  A ciphertext is
\* modelled by the key it was sealed under and the plaintext it holds;
\* decryption under another key fails the tag check and throws.
\* A credential's expiresAt is 'unset' (the optional field is absent) or a
\* timestamp.
\* ---------------------------------------------------------------------
NoExpiry == [set |-> FALSE, at |-> 0]
ExpiresAt(t) == [set |-> TRUE, at |-> t]

NoCredential ==
  [sealed |-> FALSE, key |-> "", accessToken |-> "", username |-> "", expiresAt |-> NoExpiry]

encryptCredential(plaintext, keyHex) ==
  [sealed |-> TRUE, key |-> keyHex,
   accessToken |-> plaintext.accessToken, username |-> plaintext.username,
   expiresAt |-> plaintext.expiresAt]

decryptThrows(encrypted, keyHex) == encrypted.key # keyHex

decryptCredential(encrypted, keyHex) ==
  [accessToken |-> encrypted.accessToken, username |-> encrypted.username,
   expiresAt |-> encrypted.expiresAt]

\* projects table: repo_key -> [exists, github_credential]
NoProject == [exists |-> FALSE, github_credential |-> NoCredential]

\* getDecryptedCredential(repoKey): TRUE when it returns a credential
\* (row present, column not NULL, decryption succeeds).
getDecryptedCredential(repoKey) ==
  /\ projects[repoKey].exists
  /\ projects[repoKey].github_credential.sealed
  /\ ~decryptThrows(projects[repoKey].github_credential, ENCRYPTION_KEY)

\* GET /projects: per project, whether the credential column is set.
GetProjects ==
  [r \in {k \in RepoKeys : projects[k].exists} |->
     [repoKey |-> r, hasGitHubAuth |-> projects[r].github_credential.sealed]]

\* A githubInfo that is the whole decrypted credential; C29 does not hold of it.
githubInfo_WholeCredential(cred) == cred

\* githubInfo: the username, userId, scope and authenticatedAt of the
\* decrypted credential.
githubInfo(cred) ==
  [f \in DOMAIN cred \cap {"username", "userId", "scope", "authenticatedAt"} |-> cred[f]]

\* GET /projects/:repoKey: 404 without a row; github is null (written
\* [null |-> TRUE]) without a credential or when it does not decrypt.
GetProject(repoKey) ==
  IF ~projects[repoKey].exists THEN [status |-> 404, body |-> "Not Found"]
  ELSE [status |-> 200,
        body |-> [repoKey |-> repoKey,
                  github |-> IF /\ projects[repoKey].github_credential.sealed
                                /\ ~decryptThrows(projects[repoKey].github_credential,
                                                  ENCRYPTION_KEY)
                             THEN githubInfo(decryptCredential(
                                    projects[repoKey].github_credential, ENCRYPTION_KEY))
                             ELSE [null |-> TRUE]]]

\* checkProjectAuth's verdict on the stored credential (ready: true).
checkProjectAuthReady(repoKey) ==
  /\ projects[repoKey].exists
  /\ projects[repoKey].github_credential.sealed
  /\ ~decryptThrows(projects[repoKey].github_credential, ENCRYPTION_KEY)
  /\ LET cred == decryptCredential(projects[repoKey].github_credential, ENCRYPTION_KEY)
     IN  ~cred.expiresAt.set \/ cred.expiresAt.at > now

\* ---------------------------------------------------------------------
\* sandbox_sessions table
\* ---------------------------------------------------------------------
NoRow == [status |-> "none", last_activity_at |-> 0, expires_at |-> 0]

HasRow(s) == sandbox_sessions[s].status # "none"

\* UPDATE sandbox_sessions SET status = st WHERE session_id = s
SetStatus(rows, s, st) ==
  IF rows[s].status # "none" THEN [rows EXCEPT ![s].status = st] ELSE rows

\* sandbox.destroy() on the host of session s (sandbox_id is the prefix of
\* the session id); the number of invocations saturates at MaxDestroy.
Destroy(calls, s) ==
  [calls EXCEPT ![s] = IF calls[s] < MaxDestroy THEN calls[s] + 1 ELSE calls[s]]

\* ctx.storage alarm: unset, or the time it is due.
NoAlarm == [set |-> FALSE, at |-> 0]
AlarmSetAt(t) == [set |-> TRUE, at |-> Max(t, now)]

IdleCreate == [pc |-> "none", now |-> 0, branch |-> ""]
IdleAlarm == [pc |-> "idle", now |-> 0, queue |-> <<>>]

\* The tags of a connection: none (not connected), a sync client, or
\* ['sandbox', sessionId, ...].
NotConnected == [kind |-> "closed", sessionId |-> NoSession]
SyncSocket == [kind |-> "sync", sessionId |-> NoSession]
SandboxSocket(s) == [kind |-> "sandbox", sessionId |-> s]

\* sessions table: id -> [exists, header, messages]; a header is the JSON
\* object the client keeps per session, messages the stored message list.
\* createdAt tells who stamped the header (lastUsedAt goes with it).
NoHeader == [id |-> "", name |-> "", sdkSessionId |-> "", createdAt |-> ""]
NoSessionRow == [exists |-> FALSE, header |-> NoHeader, messages |-> <<>>]

\* ---------------------------------------------------------------------
\* The file worker's requests (cloud-worker index.ts, middleware/)
\* ---------------------------------------------------------------------
\* env.API_KEY
API_KEY == "key"

\* /files/:workspace/:session/:type/:filename, one workspace and session.
\* "bogus" is not one of VALID_FILE_TYPES.
FileKeys ==
  [type : {"attachments"}, filename : {"f", "g"}] \cup {[type |-> "bogus", filename |-> "f"]}

\* The exp query parameter as text: empty, not a number, or seconds.
ExpTexts == {"", "soon", "1", "2"}

\* parseInt(exp, 10); NaN is written -1.
ParseInt(text) == CASE text = "1" -> 1 [] text = "2" -> 2 [] OTHER -> 0 - 1

\* hmacSha256(secret, `${path}:${exp}`): the signature is written as what
\* was signed and under which secret; two signatures are equal only if
\* both are.
hmacSha256(secret, path, exp) == [kind |-> "hmac", secret |-> secret, path |-> path, exp |-> exp]

\* A query parameter that is absent, and one that is present and empty.
AbsentParam == [kind |-> "absent"]
EmptyParam == [kind |-> "empty"]

\* The sig parameter: absent, empty, or a signature made under the API key
\* or under a guessed secret for some path and exp.
SigParams ==
  {AbsentParam, EmptyParam} \cup
  {hmacSha256(secret, path, exp) : secret \in {API_KEY, "guess"},
                                   path \in [type : {"attachments"}, filename : {"f", "g"}],
                                   exp \in {"1", "2"}}

\* The exp parameter: absent or a text.
ExpParams == {AbsentParam} \cup [kind : {"text"}, text : ExpTexts]

\* GET requests under /files/: the download of a file or the listing of a
\* type, with their query parameters and whether they carry the API key.
FileRequests ==
  [route : {"download", "list"}, path : FileKeys, sig : SigParams, exp : ExpParams,
   apiKey : BOOLEAN]

NoFileRequest ==
  [route |-> "none", path |-> [type |-> "attachments", filename |-> "f"],
   sig |-> AbsentParam, exp |-> AbsentParam, apiKey |-> FALSE]

\* ---------------------------------------------------------------------
\* CloudSyncManager (electron main): providers of one workspace
\* ---------------------------------------------------------------------
ProviderIds == 1..MaxProviders
CallIds == 1..MaxCalls
NoProvider == 0

\* A call that is not running: pc is where it stands, provider the
\* CloudStorageProvider it holds in a local variable or has returned.
NoCall == [pc |-> "idle", provider |-> NoProvider]

\* An execute request's handler: not running.
NoRun == [pc |-> "idle", arrived |-> <<>>, out |-> <<>>]

\* ---------------------------------------------------------------------
\* CloudConnection (storage/cloud/connection.ts), in milliseconds
\* ---------------------------------------------------------------------
REQUEST_TIMEOUT_MS == 30000
MAX_RECONNECT_DELAY_MS == 30000
INITIAL_RECONNECT_DELAY_MS == 1000

\* WebSocket objects of one connection manager that exist at the same time.
MaxSockets == 2
\* Requests sent (each send() draws a fresh UUID).
MaxRequests == 2
\* Listeners registered per listener set.
MaxListeners == 2
\* Connection attempts that fail in a row: where the back-off is followed
\* to its ceiling, and elsewhere.
MaxFailures == 7
MaxRetries == 2
\* Milliseconds that pass in one step of the clock.
ClockStep == 15000

SocketIds == 1..MaxSockets
NoSocket == 0
UUIDs == 1..MaxRequests

\* A WebSocket object with the promise of the doConnect() call that created
\* it: awaited tells that the reconnect timer's callback awaits that promise
\* (connect() hands it to the caller), errored that its error event fired.
FreeSocket == [readyState |-> "unused", promise |-> "none", awaited |-> FALSE,
               errored |-> FALSE]

NoTimer == [set |-> FALSE, delay |-> 0]
ArmedTimer(ms) == [set |-> TRUE, delay |-> ms]

\* The promise send() returned, and the time since its timer was started.
Unsent == [outcome |-> "unsent", elapsed |-> 0]
Settled(outcome) == [outcome |-> outcome, elapsed |-> 0]

\* The listeners a handler called: which set, how many of the registered
\* ones were invoked, and whether the handler ran to its end.
NoDispatch == [kind |-> "none", invoked |-> 0, registered |-> 0, completed |-> TRUE]

\* Field initialisers of the class.
NewCloudConnection ==
  [ws |-> NoSocket,
   pendingRequests |-> {},
   changeListeners |-> <<>>,
   stateListeners |-> <<>>,
   reconnectDelay |-> INITIAL_RECONNECT_DELAY_MS,
   reconnectTimer |-> NoTimer,
   state |-> "disconnected",
   shouldReconnect |-> TRUE]

\* ---------------------------------------------------------------------
\* WorkerBridge (electron/src/main/worker-bridge.ts), in milliseconds
\* ---------------------------------------------------------------------
MaxBridgeSockets == 3
BridgeSocketIds == 1..MaxBridgeSockets

\* A WebSocket object of the bridge: authSent tells that the open handler
\* sent the auth frame on it.
FreeBridgeSocket == [readyState |-> "unused", errored |-> FALSE, authSent |-> FALSE]

\* The worker url of a config: one new WebSocket() accepts, or one it
\* rejects with a SyntaxError.
WorkerUrls == {"valid", "malformed"}

NewWorkerBridge ==
  [ws |-> NoSocket,
   config |-> "null",
   status |-> "disconnected",
   reconnectTimer |-> NoTimer,
   pingTimer |-> FALSE,
   reconnectDelay |-> 1000,
   maxReconnectDelay |-> 30000,
   stopped |-> FALSE]

\* ---------------------------------------------------------------------
\* BridgeDurableObject (the broker of the worker bridge)
\* ---------------------------------------------------------------------
MaxClients == 2
ClientIds == 1..MaxClients
NoClient == [connected |-> FALSE, authenticated |-> FALSE, closeTimer |-> FALSE]

\* handleQuery's timeout, in milliseconds.
QUERY_TIMEOUT_MS == 5000
\* Query requests followed, and the milliseconds that pass in one step.
MaxQueries == 2
QueryStep == 2500
QueryIds == 1..MaxQueries

\* A query request: not made yet, awaiting its promise, or replied with a
\* status.  entry: its id is in pendingQueries; timer: its timeout is armed;
\* replies: the HTTP responses returned for it; target: while it awaits,
\* the client the query frame was sent to (0: none).
NoQuery == [phase |-> "unused", status |-> 0, entry |-> FALSE, timer |-> FALSE,
            elapsed |-> 0, replies |-> 0, target |-> 0]

Init ==
  /\ ENCRYPTION_KEY = "k1"
  /\ projects = [r \in RepoKeys |-> NoProject]
  /\ sandbox_sessions = [s \in SessionIds |-> NoRow]
  /\ alarmAt = NoAlarm
  /\ alarmRun = IdleAlarm
  /\ createRun = [s \in SessionIds |-> IdleCreate]
  /\ createResult = [s \in SessionIds |-> "none"]
  /\ terminateRun = [s \in SessionIds |-> FALSE]
  /\ destroyCalls = [s \in SessionIds |-> 0]
  /\ webSockets = [c \in ConnIds |-> NotConnected]
  /\ sessions = [k \in SessionKeys |-> NoSessionRow]
  /\ sent = <<>>
  /\ conn = NewCloudConnection
  /\ sockets = [k \in SocketIds |-> FreeSocket]
  /\ promises = [id \in UUIDs |-> Unsent]
  /\ failures = 0
  /\ notified = NoDispatch
  /\ bridge = NewWorkerBridge
  /\ bridgeSockets = [k \in BridgeSocketIds |-> FreeBridgeSocket]
  /\ clients = [c \in ClientIds |-> NoClient]
  /\ brokerSent = <<>>
  /\ queries = [q \in QueryIds |-> NoQuery]
  /\ brokerResponse = 0
  /\ restResponse = [status |-> 0, body |-> "none"]
  /\ statuses = [exists |-> FALSE, data |-> "none"]
  /\ deleted = {}
  /\ statusLog = <<>>
  /\ execRun = [c \in SandboxConnIds |-> NoRun]
  /\ FILES = {}
  /\ fileNow = 0
  /\ fileResponse = [request |-> NoFileRequest, at |-> 0, status |-> 0]
  /\ providers = NoProvider
  /\ providerObjects = [p \in ProviderIds |-> "unused"]
  /\ getProviderCalls = [k \in CallIds |-> NoCall]
  /\ disconnectCall = NoCall

\* ---------------------------------------------------------------------
\* Time: TimeStep minutes pass.  While the sweep awaits a destroy() the
\* wait lasts at most MaxAwait.
\* ---------------------------------------------------------------------
ShiftRow(row) ==
  IF row.status = "none" THEN row
  ELSE [row EXCEPT !.last_activity_at = Shift(@, TimeStep, RowFloor - IDLE_TTL),
                   !.expires_at = Shift(@, TimeStep, RowFloor)]

ShiftCredential(cred) ==
  IF cred.expiresAt.set
  THEN [cred EXCEPT !.expiresAt = ExpiresAt(Shift(cred.expiresAt.at, TimeStep, now))]
  ELSE cred

Tick ==
  /\ UNCHANGED <<clientVars, extraVars>>
  /\ alarmRun.pc = "destroy" => now - (alarmRun.now - TimeStep) <= MaxAwait
  /\ sandbox_sessions' = [s \in SessionIds |-> ShiftRow(sandbox_sessions[s])]
  /\ projects' = [r \in RepoKeys |->
                    [projects[r] EXCEPT !.github_credential = ShiftCredential(@)]]
  /\ alarmAt' = IF alarmAt.set THEN AlarmSetAt(alarmAt.at - TimeStep) ELSE alarmAt
  /\ alarmRun' = IF alarmRun.pc = "destroy"
                 THEN [alarmRun EXCEPT !.now = @ - TimeStep] ELSE alarmRun
  /\ createRun' = [s \in SessionIds |->
                     IF createRun[s].pc = "none" THEN createRun[s]
                     ELSE [createRun[s] EXCEPT !.now = Shift(@, TimeStep, now - ALARM_PERIOD)]]
  /\ sent' = <<>>
  /\ UNCHANGED <<sessions, ENCRYPTION_KEY, createResult, terminateRun, destroyCalls,
                 webSockets>>

StoreGitHubCredential(repoKey, credential) ==
  /\ UNCHANGED <<clientVars, extraVars>>
  /\ projects' = [projects EXCEPT ![repoKey] =
                    [exists |-> TRUE,
                     github_credential |-> encryptCredential(credential, ENCRYPTION_KEY)]]
  /\ sent' = <<>>
  /\ UNCHANGED <<sessions, ENCRYPTION_KEY, sandbox_sessions, alarmAt, alarmRun, createRun,
                 createResult, terminateRun, destroyCalls, webSockets>>

RevokeGitHubCredential(repoKey) ==
  /\ UNCHANGED <<clientVars, extraVars>>
  /\ projects' = [projects EXCEPT ![repoKey] =
                    IF projects[repoKey].exists
                    THEN [exists |-> TRUE, github_credential |-> NoCredential]
                    ELSE projects[repoKey]]
  /\ sent' = <<>>
  /\ UNCHANGED <<sessions, ENCRYPTION_KEY, sandbox_sessions, alarmAt, alarmRun, createRun,
                 createResult, terminateRun, destroyCalls, webSockets>>

\* The operator replaces the ENCRYPTION_KEY secret of the worker environment.
RotateKey(k) ==
  /\ UNCHANGED <<clientVars, extraVars>>
  /\ k # ENCRYPTION_KEY
  /\ ENCRYPTION_KEY' = k
  /\ sent' = <<>>
  /\ UNCHANGED <<sessions, projects, sandbox_sessions, alarmAt, alarmRun, createRun,
                 createResult, terminateRun, destroyCalls, webSockets>>

CheckProjectAuth(repoKey) ==
  /\ UNCHANGED <<clientVars, extraVars>>
  /\ projects' = [projects EXCEPT ![repoKey] =
                    IF projects[repoKey].exists THEN projects[repoKey]
                    ELSE [exists |-> TRUE, github_credential |-> NoCredential]]
  /\ sent' = <<>>
  /\ UNCHANGED <<sessions, ENCRYPTION_KEY, sandbox_sessions, alarmAt, alarmRun, createRun,
                 createResult, terminateRun, destroyCalls, webSockets>>

\* ---------------------------------------------------------------------
\* createSandboxSession
\* ---------------------------------------------------------------------
\* crypto.randomUUID(): an id no earlier call has drawn.
FreshIds == {s \in SessionIds : createResult[s] = "none"}

NeedsCheckout(branch) == branch # "" /\ branch # "main" /\ branch # "master"

\* The row as inserted (status 'provisioning').
InsertedRow(t) ==
  [status |-> "provisioning", last_activity_at |-> t, expires_at |-> t + IDLE_TTL]

\* catch (err): mark the row expired and return { error }.
CreateFail(s) ==
  /\ sandbox_sessions' = SetStatus(sandbox_sessions, s, "expired")
  /\ createRun' = [createRun EXCEPT ![s] = IdleCreate]
  /\ createResult' = [createResult EXCEPT ![s] = "error"]
  /\ UNCHANGED alarmAt

\* status 'ready', setAlarm(now + 60_000), return { sessionId, sandboxId, wsUrl }.
CreateFinish(s) ==
  /\ sandbox_sessions' = SetStatus(sandbox_sessions, s, "ready")
  /\ alarmAt' = AlarmSetAt(createRun[s].now + ALARM_PERIOD)
  /\ createRun' = [createRun EXCEPT ![s] = IdleCreate]
  /\ createResult' = [createResult EXCEPT ![s] = "ok"]

\* The call up to its first yielding await (sandbox.gitCheckout).
\* hostOk = FALSE: getSandbox throws.
CreateSandboxSession(repoKey, branch, hostOk) ==
  /\ UNCHANGED <<clientVars, extraVars>>
  /\ IF ~getDecryptedCredential(repoKey)
     THEN UNCHANGED <<sandbox_sessions, createRun, createResult>>
     ELSE /\ FreshIds # {}
          /\ LET s == Min(FreshIds)
             IN  IF hostOk
                 THEN /\ sandbox_sessions' = [sandbox_sessions EXCEPT ![s] =
                                                [InsertedRow(now) EXCEPT !.status = "cloning"]]
                      /\ createRun' = [createRun EXCEPT ![s] =
                                         [pc |-> "clone", now |-> now, branch |-> branch]]
                      /\ createResult' = [createResult EXCEPT ![s] = "pending"]
                 ELSE /\ sandbox_sessions' = [sandbox_sessions EXCEPT ![s] =
                                                [InsertedRow(now) EXCEPT !.status = "expired"]]
                      /\ createResult' = [createResult EXCEPT ![s] = "error"]
                      /\ UNCHANGED createRun
  /\ sent' = <<>>
  /\ UNCHANGED <<sessions, ENCRYPTION_KEY, projects, alarmAt, alarmRun, terminateRun,
                 destroyCalls, webSockets>>

\* sandbox.gitCheckout settles (ok = FALSE: it rejects).
CreateCloneReturn(s, ok) ==
  /\ UNCHANGED <<clientVars, extraVars>>
  /\ createRun[s].pc = "clone"
  /\ IF ~ok THEN CreateFail(s)
     ELSE IF NeedsCheckout(createRun[s].branch)
          THEN /\ createRun' = [createRun EXCEPT ![s].pc = "checkout"]
               /\ UNCHANGED <<sandbox_sessions, createResult, alarmAt>>
          ELSE CreateFinish(s)
  /\ sent' = <<>>
  /\ UNCHANGED <<sessions, ENCRYPTION_KEY, projects, alarmRun, terminateRun,
                 destroyCalls, webSockets>>

\* sandbox.exec('git checkout <branch>') settles (ok = FALSE: it rejects).
CreateCheckoutReturn(s, ok) ==
  /\ UNCHANGED <<clientVars, extraVars>>
  /\ createRun[s].pc = "checkout"
  /\ IF ok THEN CreateFinish(s) ELSE CreateFail(s)
  /\ sent' = <<>>
  /\ UNCHANGED <<sessions, ENCRYPTION_KEY, projects, alarmRun, terminateRun,
                 destroyCalls, webSockets>>

\* ---------------------------------------------------------------------
\* sandboxHeartbeat: UPDATE ... SET last_activity_at, expires_at, status
\* WHERE session_id = s
\* ---------------------------------------------------------------------
\* A heartbeat that records the activity but does not extend expires_at; C6
\* does not hold of it.
sandboxHeartbeat_NoExtend(rows, s, t) ==
  IF rows[s].status # "none"
  THEN [rows EXCEPT ![s].status = "ready", ![s].last_activity_at = t]
  ELSE rows

sandboxHeartbeat(rows, s, t) ==
  IF rows[s].status # "none"
  THEN [rows EXCEPT ![s] = [status |-> "ready", last_activity_at |-> t,
                            expires_at |-> t + IDLE_TTL]]
  ELSE rows

\* POST /sandbox/sessions/:sessionId/heartbeat
RestHeartbeat(s) ==
  /\ UNCHANGED <<clientVars, extraVars>>
  /\ sandbox_sessions' = sandboxHeartbeat(sandbox_sessions, s, now)
  /\ sent' = <<>>
  /\ UNCHANGED <<sessions, ENCRYPTION_KEY, projects, alarmAt, alarmRun, createRun,
                 createResult, terminateRun, destroyCalls, webSockets>>

\* ---------------------------------------------------------------------
\* terminateSandboxSession: DELETE /sandbox/sessions/:sessionId
\* ---------------------------------------------------------------------
TerminateStart(s) ==
  /\ UNCHANGED <<clientVars, extraVars>>
  /\ ~terminateRun[s]
  /\ IF HasRow(s)
     THEN /\ destroyCalls' = Destroy(destroyCalls, s)
          /\ terminateRun' = [terminateRun EXCEPT ![s] = TRUE]
     ELSE UNCHANGED <<destroyCalls, terminateRun>>
  /\ sent' = <<>>
  /\ UNCHANGED <<sessions, ENCRYPTION_KEY, projects, sandbox_sessions, alarmAt, alarmRun,
                 createRun, createResult, webSockets>>

\* sandbox.destroy() settles (either way); the row is deleted.
TerminateReturn(s) ==
  /\ UNCHANGED <<clientVars, extraVars>>
  /\ terminateRun[s]
  /\ sandbox_sessions' = [sandbox_sessions EXCEPT ![s] = NoRow]
  /\ terminateRun' = [terminateRun EXCEPT ![s] = FALSE]
  /\ sent' = <<>>
  /\ UNCHANGED <<sessions, ENCRYPTION_KEY, projects, alarmAt, alarmRun, createRun,
                 createResult, destroyCalls, webSockets>>

\* ---------------------------------------------------------------------
\* Sandbox sockets: handleSandboxWebSocket, handleSandboxMessage
\* ---------------------------------------------------------------------
\* The frames a sandbox client sends that need no execution: text that is
\* not JSON, the keep-alives, and a message of an unknown type.
SandboxFrames == {"badjson", "ping", "heartbeat", "other"}

\* GET /sandbox/ws/:sessionId with Upgrade: websocket
HandleSandboxWebSocket(c, s) ==
  /\ UNCHANGED <<clientVars, extraVars>>
  /\ webSockets[c].kind = "closed"
  /\ IF HasRow(s) /\ sandbox_sessions[s].status # "expired"
     THEN /\ webSockets' = [webSockets EXCEPT ![c] = SandboxSocket(s)]
     ELSE UNCHANGED webSockets
  /\ sent' = <<>>
  /\ UNCHANGED <<sessions, ENCRYPTION_KEY, projects, sandbox_sessions, alarmAt, alarmRun,
                 createRun, createResult, terminateRun, destroyCalls>>

\* webSocketClose / webSocketError: the runtime drops the connection.
WebSocketClose(c) ==
  /\ UNCHANGED <<clientVars, extraVars>>
  /\ webSockets[c].kind # "closed"
  /\ webSockets' = [webSockets EXCEPT ![c] = NotConnected]
  /\ sent' = <<>>
  /\ UNCHANGED <<sessions, ENCRYPTION_KEY, projects, sandbox_sessions, alarmAt, alarmRun,
                 createRun, createResult, terminateRun, destroyCalls>>

\* A keep-alive handling that is held back while an execute of the
\* connection is streaming; C31 does not hold of it.
HandleSandboxMessage_AfterExecute(c, frame) ==
  /\ UNCHANGED <<clientVars, extraVars>>
  /\ webSockets[c].kind = "sandbox"
  /\ execRun[c].pc # "streaming"
  /\ sandbox_sessions' = sandboxHeartbeat(sandbox_sessions, webSockets[c].sessionId, now)
  /\ sent' = <<[to |-> c, msg |-> [type |-> "pong"]]>>
  /\ UNCHANGED <<sessions, ENCRYPTION_KEY, projects, alarmAt, alarmRun, createRun,
                 createResult, terminateRun, destroyCalls, webSockets>>

SandboxReply(frame) ==
  CASE frame = "ping" -> [type |-> "pong"]
    [] frame = "heartbeat" -> [type |-> "heartbeat_ack"]
    [] OTHER -> [type |-> "error"]

\* handleSandboxMessage for the keep-alive and unknown frames: JSON.parse,
\* then sandboxHeartbeat, then the reply.  A frame that does not parse is
\* answered from the catch block before the heartbeat.
HandleSandboxMessage(c, frame) ==
  /\ UNCHANGED <<clientVars, extraVars>>
  /\ webSockets[c].kind = "sandbox"
  /\ LET s == webSockets[c].sessionId
     IN  /\ IF frame = "badjson"
            THEN UNCHANGED sandbox_sessions
            ELSE sandbox_sessions' = sandboxHeartbeat(sandbox_sessions, s, now)
         /\ sent' = <<[to |-> c, msg |-> SandboxReply(frame)]>>
  /\ UNCHANGED <<sessions, ENCRYPTION_KEY, projects, alarmAt, alarmRun, createRun,
                 createResult, terminateRun, destroyCalls, webSockets>>

\* ---------------------------------------------------------------------
\* handleSandboxMessage, type 'execute'
\* ---------------------------------------------------------------------
\* An execute request: its task ("" when it has neither task nor prompt) and
\* its anthropicApiKey: absent, one that does not decrypt, one that does not
\* decrypt but starts with 'sk-' (used as it is), or one that decrypts.
ExecuteRequests ==
  [task : {"", "task"}, anthropicApiKey : {"absent", "garbled", "sk-plain", "sealed"}]

\* The lines of stdout data; the first two are blank (line.trim() is empty).
BlankLines == {"", " "}

\* The events parseSSEStream yields.  The data of a stdout event is written
\* as the sequence data.split('\n') gives.  "throw" is the stream rejecting,
\* "end" the stream finishing.
SSEEvents ==
  [type : {"stdout"}, data : {<<"l1">>, <<"l2", "", "l1">>, <<" ">>, <<"l1", "l1">>}]
  \cup [type : {"complete"}, exitCode : {0, 1}]
  \cup [type : {"stderr", "error", "unknown", "throw", "end"}]

\* A forwarding that sends one frame per stdout event, its first line; C30
\* does not hold of it.
Forward_FirstLine(event) ==
  CASE event.type = "stdout" -> <<[type |-> "stream", data |-> event.data[1]]>>
    [] event.type = "complete" -> <<[type |-> "complete", exitCode |-> event.exitCode]>>
    [] event.type \in {"error", "throw"} -> <<[type |-> "error"]>>
    [] OTHER -> <<>>

\* The frames the loop over the stream sends for one event: a stream frame
\* per line of stdout data that is not blank, the complete event with its
\* exit code, an error for an error event or a rejection; stderr and unknown
\* events are logged only.
Forward(event) ==
  CASE event.type = "stdout" ->
         LET NotBlank(line) == line \notin BlankLines
             lines == SelectSeq(event.data, NotBlank)
         IN  [i \in DOMAIN lines |-> [type |-> "stream", data |-> lines[i]]]
    [] event.type = "complete" -> <<[type |-> "complete", exitCode |-> event.exitCode]>>
    [] event.type \in {"error", "throw"} -> <<[type |-> "error"]>>
    [] OTHER -> <<>>

\* The frames of a handler addressed to connection c.
ToSocket(c, frames) == [i \in DOMAIN frames |-> [to |-> c, msg |-> frames[i]]]

\* handleSandboxMessage for an execute frame, up to the first await on the
\* stream: sandboxHeartbeat, then an error frame for a request without task
\* or key or with a key that does not decrypt, or for an execStream that
\* throws (starts = FALSE); else the loop over the stream begins.
HandleExecute(c, request, starts) ==
  /\ UNCHANGED <<clientVars, restResponse, statuses, deleted, statusLog, otherVars>>
  /\ webSockets[c].kind = "sandbox"
  /\ execRun[c].pc # "streaming"
  /\ sandbox_sessions' = sandboxHeartbeat(sandbox_sessions, webSockets[c].sessionId, now)
  /\ IF request.task = "" \/ request.anthropicApiKey \in {"absent", "garbled"} \/ ~starts
     THEN /\ execRun' = [execRun EXCEPT ![c] =
                           [pc |-> "failed", arrived |-> <<>>, out |-> <<[type |-> "error"]>>]]
          /\ sent' = ToSocket(c, <<[type |-> "error"]>>)
     ELSE /\ execRun' = [execRun EXCEPT ![c] =
                           [pc |-> "streaming", arrived |-> <<>>, out |-> <<>>]]
          /\ sent' = <<>>
  /\ UNCHANGED <<sessions, ENCRYPTION_KEY, projects, alarmAt, alarmRun, createRun,
                 createResult, terminateRun, destroyCalls, webSockets>>

\* One turn of the for await loop: the stream delivers an event.  The
\* stream of a run that finishes ends with its complete event.
HandleStreamEvent(c, event) ==
  /\ UNCHANGED <<clientVars, restResponse, statuses, deleted, statusLog, otherVars>>
  /\ webSockets[c].kind = "sandbox"
  /\ execRun[c].pc = "streaming"
  /\ execRun' = [execRun EXCEPT ![c] =
                   [pc |-> IF event.type \in {"complete", "throw", "end"}
                           THEN "done" ELSE "streaming",
                    arrived |-> Append(execRun[c].arrived, event),
                    out |-> execRun[c].out \o Forward(event)]]
  /\ sent' = ToSocket(c, Forward(event))
  /\ UNCHANGED <<sessions, ENCRYPTION_KEY, projects, sandbox_sessions, alarmAt, alarmRun,
                 createRun, createResult, terminateRun, destroyCalls, webSockets>>

\* ---------------------------------------------------------------------
\* The file worker: authMiddleware, validateSignedUrl, GET /files/...
\* ---------------------------------------------------------------------
\* authMiddleware lets a GET under /files/ through without looking at the
\* API key when the URL has a sig and an exp parameter, whatever their value.
hasSignedParams(request) ==
  request.sig # AbsentParam /\ request.exp # AbsentParam

\* authMiddleware: TRUE when next() is called, FALSE for the 401.
authMiddleware(request) == hasSignedParams(request) \/ request.apiKey

\* c.req.query(name) as a truth value: absent and empty are falsy.
Truthy(param) == param.kind \notin {"absent", "empty"} /\ (param.kind = "text" => param.text # "")

\* validateSignedUrl(path, sig, exp, secret) at time t (milliseconds)
validateSignedUrl(path, sig, exp, secret, t) ==
  LET expTime == ParseInt(exp.text)
  IN  /\ ~(expTime = 0 - 1 \/ t > expTime * 1000)
      /\ sig = hmacSha256(secret, path, exp.text)

\* The status of GET /files/:workspace/:session/:type/:filename
getFile(request, t) ==
  IF ~authMiddleware(request) THEN 401
  ELSE IF Truthy(request.sig) /\ Truthy(request.exp)
          /\ ~validateSignedUrl(request.path, request.sig, request.exp, API_KEY, t)
  THEN 403
  ELSE IF request.path.type # "attachments" THEN 400
  ELSE IF request.path \notin FILES THEN 404
  ELSE 200

\* The status of GET /files/:workspace/:session/:type, the listing.
listFiles(request, t) ==
  IF ~authMiddleware(request) THEN 401
  ELSE IF request.path.type # "attachments" THEN 400
  ELSE 200

\* A GET request under /files/ is answered.
FileGet(request) ==
  /\ fileResponse' = [request |-> request, at |-> fileNow,
                       status |-> IF request.route = "download"
                                  THEN getFile(request, fileNow)
                                  ELSE listFiles(request, fileNow)]
  /\ UNCHANGED <<FILES, fileNow>>
  /\ UNCHANGED <<clientVars, ENCRYPTION_KEY, projects, sandbox_sessions, alarmAt, alarmRun,
                 createRun, createResult, terminateRun, destroyCalls, webSockets,
                 sessions, sent, restResponse, statuses, deleted, statusLog, execRun,
                 managerVars>>

\* PUT /files/:workspace/:session/:type/:filename with the API key
FilePut(path) ==
  /\ path.type = "attachments"
  /\ FILES' = FILES \cup {path}
  /\ UNCHANGED <<fileNow, fileResponse>>
  /\ UNCHANGED <<clientVars, ENCRYPTION_KEY, projects, sandbox_sessions, alarmAt, alarmRun,
                 createRun, createResult, terminateRun, destroyCalls, webSockets,
                 sessions, sent, restResponse, statuses, deleted, statusLog, execRun,
                 managerVars>>

\* FileStep milliseconds pass.
FileTick ==
  /\ fileNow < MaxFileNow
  /\ fileNow' = fileNow + FileStep
  /\ UNCHANGED <<FILES, fileResponse>>
  /\ UNCHANGED <<clientVars, ENCRYPTION_KEY, projects, sandbox_sessions, alarmAt, alarmRun,
                 createRun, createResult, terminateRun, destroyCalls, webSockets,
                 sessions, sent, restResponse, statuses, deleted, statusLog, execRun,
                 managerVars>>

\* ---------------------------------------------------------------------
\* CloudSyncManager.getProvider and disconnect
\* ---------------------------------------------------------------------
\* getProvider(workspace) up to its first await: the registered provider
\* is returned, or the call goes on to credManager.get().
GetProviderStart(k) ==
  /\ getProviderCalls[k].pc \in {"idle", "returned", "threw"}
  /\ getProviderCalls' = [getProviderCalls EXCEPT ![k] =
                            IF providers # NoProvider
                            THEN [pc |-> "returned", provider |-> providers]
                            ELSE [pc |-> "credential", provider |-> NoProvider]]
  /\ UNCHANGED <<providers, providerObjects, disconnectCall>>
  /\ UNCHANGED <<clientVars, ENCRYPTION_KEY, projects, sandbox_sessions, alarmAt, alarmRun,
                 createRun, createResult, terminateRun, destroyCalls, webSockets,
                 sessions, sent, restResponse, statuses, deleted, statusLog, execRun,
                 fileVars>>

\* credManager.get() returns: without a credential the call throws; with
\* one it creates a provider, registers it and awaits provider.initialize().
GetProviderCredential(k, found) ==
  /\ getProviderCalls[k].pc = "credential"
  /\ IF ~found
     THEN /\ getProviderCalls' = [getProviderCalls EXCEPT ![k].pc = "threw"]
          /\ UNCHANGED <<providers, providerObjects>>
     ELSE LET unused == {p \in ProviderIds : providerObjects[p] = "unused"}
              provider == Min(unused)
          IN  /\ unused # {}
              /\ providerObjects' = [providerObjects EXCEPT ![provider] = "connecting"]
              /\ providers' = provider
              /\ getProviderCalls' = [getProviderCalls EXCEPT ![k] =
                                        [pc |-> "initialize", provider |-> provider]]
  /\ UNCHANGED disconnectCall
  /\ UNCHANGED <<clientVars, ENCRYPTION_KEY, projects, sandbox_sessions, alarmAt, alarmRun,
                 createRun, createResult, terminateRun, destroyCalls, webSockets,
                 sessions, sent, restResponse, statuses, deleted, statusLog, execRun,
                 fileVars>>

\* provider.initialize() settles: the provider is returned, or the entry of
\* the workspace id is deleted and the error rethrown.  A provider that was
\* disposed of meanwhile stays so.
GetProviderInitialized(k, ok) ==
  /\ getProviderCalls[k].pc = "initialize"
  /\ IF ok
     THEN /\ providerObjects' = [providerObjects EXCEPT ![getProviderCalls[k].provider] =
                                   IF @ = "connecting" THEN "connected" ELSE @]
          /\ getProviderCalls' = [getProviderCalls EXCEPT ![k].pc = "returned"]
          /\ UNCHANGED providers
     ELSE /\ providerObjects' = [providerObjects EXCEPT ![getProviderCalls[k].provider] =
                                   IF @ = "connecting" THEN "failed" ELSE @]
          /\ getProviderCalls' = [getProviderCalls EXCEPT ![k].pc = "threw"]
          /\ providers' = NoProvider
  /\ UNCHANGED disconnectCall
  /\ UNCHANGED <<clientVars, ENCRYPTION_KEY, projects, sandbox_sessions, alarmAt, alarmRun,
                 createRun, createResult, terminateRun, destroyCalls, webSockets,
                 sessions, sent, restResponse, statuses, deleted, statusLog, execRun,
                 fileVars>>

\* disconnect(workspaceId) up to its await: nothing without an entry, else
\* the entry's provider is disposed of.
DisconnectStart ==
  /\ disconnectCall.pc = "idle"
  /\ providers # NoProvider
  /\ disconnectCall' = [pc |-> "dispose", provider |-> providers]
  /\ providerObjects' = [providerObjects EXCEPT ![providers] = "disposed"]
  /\ UNCHANGED <<providers, getProviderCalls>>
  /\ UNCHANGED <<clientVars, ENCRYPTION_KEY, projects, sandbox_sessions, alarmAt, alarmRun,
                 createRun, createResult, terminateRun, destroyCalls, webSockets,
                 sessions, sent, restResponse, statuses, deleted, statusLog, execRun,
                 fileVars>>

\* provider.dispose() returns: the entry of the workspace id is deleted.
DisconnectFinish ==
  /\ disconnectCall.pc = "dispose"
  /\ disconnectCall' = NoCall
  /\ providers' = NoProvider
  /\ UNCHANGED <<providerObjects, getProviderCalls>>
  /\ UNCHANGED <<clientVars, ENCRYPTION_KEY, projects, sandbox_sessions, alarmAt, alarmRun,
                 createRun, createResult, terminateRun, destroyCalls, webSockets,
                 sessions, sent, restResponse, statuses, deleted, statusLog, execRun,
                 fileVars>>

\* ---------------------------------------------------------------------
\* alarm(): the idle sweep
\* ---------------------------------------------------------------------
RECURSIVE SortedSeq(_)
SortedSeq(S) == IF S = {} THEN <<>> ELSE <<Min(S)>> \o SortedSeq(S \ {Min(S)})

\* SELECT ... WHERE expires_at < ? AND status != 'expired'
ExpiredSelection(rows, t) ==
  {s \in SessionIds : rows[s].status # "none" /\ rows[s].status # "expired"
                      /\ rows[s].expires_at < t}

\* DELETE ... WHERE status = 'expired' AND expires_at < now - 5 min
DeleteExpired(rows, t) ==
  [s \in SessionIds |->
     IF rows[s].status = "expired" /\ rows[s].expires_at < t - EXPIRED_GRACE
     THEN NoRow ELSE rows[s]]

\* SELECT COUNT(*) ... WHERE status NOT IN ('expired')
ActiveSessions(rows) ==
  Cardinality({s \in SessionIds : rows[s].status # "none" /\ rows[s].status # "expired"})

\* A sweep that sets the alarm again whatever remains; C8 does not hold of
\* it.
Reschedule_Always(rows, t, armed) == AlarmSetAt(t + ALARM_PERIOD)

\* The alarm to leave scheduled at the end of the sweep that started at t:
\* armed is what is scheduled when the end is reached.
Reschedule(rows, t, armed) ==
  IF ActiveSessions(rows) > 0 THEN AlarmSetAt(t + ALARM_PERIOD) ELSE armed

\* The tail of alarm() after the loop: delete, count, reschedule.
AlarmFinish(rows, t, armed) ==
  /\ sandbox_sessions' = DeleteExpired(rows, t)
  /\ alarmAt' = Reschedule(DeleteExpired(rows, t), t, armed)
  /\ alarmRun' = IdleAlarm

\* The scheduled alarm fires (the runtime clears it when the handler starts)
\* and runs up to its first await of sandbox.destroy().
AlarmFire ==
  /\ UNCHANGED <<clientVars, extraVars>>
  /\ alarmAt.set
  /\ now >= alarmAt.at
  /\ alarmRun.pc = "idle"
  /\ LET q == SortedSeq(ExpiredSelection(sandbox_sessions, now))
     IN  IF q = <<>>
         THEN /\ AlarmFinish(sandbox_sessions, now, NoAlarm)
              /\ UNCHANGED destroyCalls
         ELSE /\ destroyCalls' = Destroy(destroyCalls, Head(q))
              /\ alarmRun' = [pc |-> "destroy", now |-> now, queue |-> q]
              /\ alarmAt' = NoAlarm
              /\ UNCHANGED sandbox_sessions
  /\ sent' = <<>>
  /\ UNCHANGED <<sessions, ENCRYPTION_KEY, projects, createRun, createResult, terminateRun,
                 webSockets>>

\* sandbox.destroy() of the head of the queue settles: the row is marked
\* expired and the loop goes on to the next row or to the tail.
AlarmDestroyReturn ==
  /\ UNCHANGED <<clientVars, extraVars>>
  /\ alarmRun.pc = "destroy"
  /\ LET s == Head(alarmRun.queue)
         rest == Tail(alarmRun.queue)
         marked == SetStatus(sandbox_sessions, s, "expired")
     IN  IF rest = <<>>
         THEN /\ AlarmFinish(marked, alarmRun.now, alarmAt)
              /\ UNCHANGED destroyCalls
         ELSE /\ sandbox_sessions' = marked
              /\ destroyCalls' = Destroy(destroyCalls, Head(rest))
              /\ alarmRun' = [alarmRun EXCEPT !.queue = rest]
              /\ UNCHANGED alarmAt
  /\ sent' = <<>>
  /\ UNCHANGED <<sessions, ENCRYPTION_KEY, projects, createRun, createResult, terminateRun,
                 webSockets>>

\* ---------------------------------------------------------------------
\* Sync protocol: webSocketMessage / handleMessage / toChangeEvent /
\* broadcast for the session commands
\* ---------------------------------------------------------------------
RequestIds == {"r1"}

\* The message lists a client saves.
MessageLists == {<<>>, <<"msg1", "msg2">>, <<"msg2", "msg1">>}

\* A header as a client submits it: the timestamps are the client's, and its
\* messageCount is a number that no list of MessageLists has.
ClientHeaders ==
  [id : SessionKeys, name : SessionNames, sdkSessionId : {""}, createdAt : {"client"},
   messageCount : {5}]

\* The frames a sync client sends: text that is not JSON, a message of a
\* type the switch does not know, or a session command.
SyncFrames ==
  {[type |-> "badjson"]}
  \cup [type : {"bogus"}, requestId : RequestIds]
  \cup [type : {"session:create"}, requestId : RequestIds, data : ClientHeaders]
  \cup [type : {"session:save"}, requestId : RequestIds,
        data : [id : SessionKeys, header : ClientHeaders, messages : MessageLists]]
  \cup [type : {"session:delete", "session:clearMessages"}, requestId : RequestIds,
        data : [sessionId : SessionKeys]]
  \cup [type : {"session:updateMeta"}, requestId : RequestIds,
        data : [sessionId : SessionKeys, updates : [name : SessionNames]]]
  \cup [type : {"session:updateSdkId"}, requestId : RequestIds,
        data : [sessionId : SessionKeys, sdkSessionId : SdkIds]]

\* { ...h, ...upd }
\* A merge into the header as it was before it was flagged, as a handler
\* would write that had read the row before a flag action ran; C34 does not
\* hold of it.
Merge_StaleHeader(h, upd) ==
  [k \in (DOMAIN h \ {"isFlagged"}) \cup DOMAIN upd |->
     IF k \in DOMAIN upd THEN upd[k] ELSE h[k]]

Merge(h, upd) ==
  [f \in DOMAIN h \cup DOMAIN upd |-> IF f \in DOMAIN upd THEN upd[f] ELSE h[f]]

\* The ids with a deleted row after a step that leaves the table as store.
Tombstones(store) ==
  {k \in SessionKeys : (k \in deleted \/ sessions[k].exists) /\ ~store[k].exists}

\* GET /sessions/:id: 404 without a row, else the stored header with the
\* stored messages.  The columns hold JSON.stringify of values that came
\* out of JSON.parse, which JSON.parse gives back as they were.
handleRestGet(k) ==
  IF ~sessions[k].exists THEN [status |-> 404, body |-> "Not Found"]
  ELSE [status |-> 200,
        body |-> Merge(sessions[k].header, [messages |-> sessions[k].messages])]

\* The workspace's status configs, and the statuses:save frames carrying them.
StatusConfigs ==
  {[version |-> 1, statuses |-> <<"todo">>, defaultStatusId |-> "todo"],
   [version |-> 1, statuses |-> <<"todo", "done">>, defaultStatusId |-> "todo"]}

StatusFrames == [type : {"statuses:save"}, requestId : RequestIds, data : StatusConfigs]

\* The statuses row after handleMessage(msg): INSERT OR REPLACE of id 'config'.
handleMessageStatuses(msg) ==
  IF msg.type = "statuses:save" THEN [exists |-> TRUE, data |-> msg.data] ELSE statuses

\* GET /sessions: the header a bulk read returns for session k.
ReadSession(k) == sessions[k].header

\* handleMessage throws: INSERT on an existing primary key, 'Session not
\* found', 'Unknown message type'.
handleMessageThrows_KnowsAll(msg) ==
  CASE msg.type = "session:create" -> sessions[msg.data.id].exists
    [] msg.type \in {"session:updateMeta", "session:updateSdkId"} ->
         ~sessions[msg.data.sessionId].exists
    [] OTHER -> FALSE

handleMessageThrows(msg) ==
  CASE msg.type = "session:create" -> sessions[msg.data.id].exists
    [] msg.type \in {"session:updateMeta", "session:updateSdkId"} ->
         ~sessions[msg.data.sessionId].exists
    [] msg.type = "bogus" -> TRUE
    [] OTHER -> FALSE

\* The message of the error handleMessage(msg) throws.
handleMessageError(msg) ==
  CASE msg.type = "session:create" -> "UNIQUE constraint failed"
    [] msg.type \in {"session:updateMeta", "session:updateSdkId"} -> "Session not found"
    [] OTHER -> "Unknown message type"

\* A session:save that keeps the header and drops the messages; C23 does not
\* hold of it.
handleMessageStore_DropsMessages(msg) ==
  IF msg.type = "session:save"
  THEN [sessions EXCEPT ![msg.data.id] =
          [exists |-> TRUE, header |-> msg.data.header, messages |-> <<>>]]
  ELSE sessions

\* The sessions table after handleMessage(msg).
handleMessageStore(msg) ==
  CASE msg.type = "session:create" ->
         [sessions EXCEPT ![msg.data.id] =
            [exists |-> TRUE, header |-> [msg.data EXCEPT !.createdAt = "server"],
             messages |-> <<>>]]
    [] msg.type = "session:save" ->
         [sessions EXCEPT ![msg.data.id] =
            [exists |-> TRUE, header |-> msg.data.header, messages |-> msg.data.messages]]
    [] msg.type = "session:delete" ->
         [sessions EXCEPT ![msg.data.sessionId] = NoSessionRow]
    [] msg.type = "session:updateMeta" ->
         [sessions EXCEPT ![msg.data.sessionId].header = Merge(@, msg.data.updates)]
    [] msg.type = "session:updateSdkId" ->
         [sessions EXCEPT ![msg.data.sessionId].header =
            Merge(@, [sdkSessionId |-> msg.data.sdkSessionId])]
    [] msg.type = "session:clearMessages" ->
         [sessions EXCEPT ![msg.data.sessionId].messages = <<>>]
    [] OTHER -> sessions

\* The value handleMessage(msg) returns.
handleMessageResult(msg) ==
  CASE msg.type = "session:create" -> [msg.data EXCEPT !.createdAt = "server"]
    [] msg.type = "session:updateMeta" ->
         Merge(sessions[msg.data.sessionId].header, msg.data.updates)
    [] OTHER -> [success |-> TRUE]

\* A change event stamped with the number of saves before it; C25 does not
\* hold of it.
toChangeEvent_Stamped(msg, result) ==
  [entity |-> "statuses", action |-> "updated",
   data |-> [config |-> msg.data, sequence |-> Len(statusLog)]]

toChangeEvent(msg, result) ==
  CASE msg.type = "session:create" ->
         [entity |-> "session", action |-> "created", data |-> result]
    [] msg.type = "session:save" ->
         [entity |-> "session", action |-> "updated", data |-> msg.data.header]
    [] msg.type = "session:updateMeta" ->
         [entity |-> "session", action |-> "updated", data |-> result]
    [] msg.type \in {"session:updateSdkId", "session:clearMessages"} ->
         [entity |-> "session", action |-> "updated", data |-> msg.data]
    [] msg.type = "session:delete" ->
         [entity |-> "session", action |-> "deleted", data |-> msg.data]
    [] msg.type = "statuses:save" ->
         [entity |-> "statuses", action |-> "updated", data |-> msg.data]

\* A broadcast that skips neither the sender nor the sandbox sockets; C1
\* does not hold of it.
BroadcastTargets_NoSkip(sender) == {c \in ConnIds : webSockets[c].kind # "closed"}

\* broadcast(sender, message): one frame to every connected socket but the
\* sender and the sandbox-tagged ones.
BroadcastTargets(sender) ==
  {c \in ConnIds : c # sender /\ webSockets[c].kind # "closed"
                   /\ webSockets[c].kind # "sandbox"}

RECURSIVE SendEach(_, _)
SendEach(targets, message) ==
  IF targets = {} THEN <<>>
  ELSE <<[to |-> Min(targets), msg |-> message]>>
       \o SendEach(targets \ {Min(targets)}, message)

broadcast(sender, message) == SendEach(BroadcastTargets(sender), message)

\* fetch() with Upgrade: websocket on the workspace path: a sync client.
AcceptSyncSocket(c) ==
  /\ UNCHANGED <<clientVars, extraVars>>
  /\ webSockets[c].kind = "closed"
  /\ webSockets' = [webSockets EXCEPT ![c] = SyncSocket]
  /\ sent' = <<>>
  /\ UNCHANGED <<sessions, ENCRYPTION_KEY, projects, sandbox_sessions, alarmAt, alarmRun,
                 createRun, createResult, terminateRun, destroyCalls>>

\* webSocketMessage on a sync connection.
\* A dispatch that holds sync frames back while an execute is streaming and
\* then answers them with an error; C33 does not hold of it.
WebSocketMessage_AfterExecute(c, msg) ==
  /\ UNCHANGED <<clientVars, extraVars>>
  /\ webSockets[c].kind = "sync"
  /\ \A x \in SandboxConnIds : execRun[x].pc # "streaming"
  /\ sent' = <<[to |-> c, msg |-> [type |-> "response", requestId |-> "unknown",
                                   error |-> "Invalid JSON"]]>>
  /\ UNCHANGED <<sessions, ENCRYPTION_KEY, projects, sandbox_sessions, alarmAt, alarmRun,
                 createRun, createResult, terminateRun, destroyCalls, webSockets>>

WebSocketMessage(c, msg) ==
  /\ UNCHANGED <<clientVars, restResponse, execRun, otherVars>>
  /\ webSockets[c].kind = "sync"
  /\ IF msg.type = "badjson"
     THEN /\ sent' = <<[to |-> c, msg |-> [type |-> "response", requestId |-> "unknown",
                                          error |-> "Invalid JSON"]]>>
          /\ UNCHANGED <<sessions, deleted, statuses, statusLog>>
     ELSE IF handleMessageThrows(msg)
     THEN /\ sent' = <<[to |-> c, msg |-> [type |-> "response", requestId |-> msg.requestId,
                                          error |-> handleMessageError(msg)]]>>
          /\ UNCHANGED <<sessions, deleted, statuses, statusLog>>
     ELSE /\ sessions' = handleMessageStore(msg)
          /\ deleted' = Tombstones(handleMessageStore(msg))
          /\ statuses' = handleMessageStatuses(msg)
          /\ statusLog' = IF msg.type = "statuses:save"
                          THEN Append(statusLog,
                                      [payload |-> msg.data,
                                       row |-> handleMessageStatuses(msg),
                                       event |-> toChangeEvent(msg, handleMessageResult(msg))])
                          ELSE statusLog
          /\ sent' = <<[to |-> c, msg |-> [type |-> "response", requestId |-> msg.requestId,
                                          data |-> handleMessageResult(msg)]]>>
                     \o broadcast(c, [type |-> "broadcast",
                                      event |-> toChangeEvent(msg, handleMessageResult(msg))])
  /\ UNCHANGED <<ENCRYPTION_KEY, projects, sandbox_sessions, alarmAt, alarmRun,
                 createRun, createResult, terminateRun, destroyCalls, webSockets>>

\* ---------------------------------------------------------------------
\* REST actions on sessions (handleRestPost, /actions/...)
\* ---------------------------------------------------------------------
ActionPaths == {"/actions/new-chat", "/actions/flag-session", "/actions/unflag-session",
                "/actions/rename-session", "/actions/delete-session"}

\* A request body; "" is a field the body does not carry.
ActionBodies == [sessionId : SessionKeys \cup {""}, name : SessionNames \cup {""}]

\* A broadcast that does not skip the sandbox sockets; C21 does not hold of it.
broadcastToAll_NoSkip(event) ==
  SendEach({c \in ConnIds : webSockets[c].kind # "closed"},
           [type |-> "broadcast", event |-> event])

\* broadcastToAll(event): one frame to every connected socket but the
\* sandbox-tagged ones.
broadcastToAll(event) ==
  SendEach({c \in ConnIds : webSockets[c].kind # "closed" /\ webSockets[c].kind # "sandbox"},
           [type |-> "broadcast", event |-> event])

\* handleRestPost on an /actions/ route: the response, the sessions table
\* and the frames sent.  A route either answers before it writes (Rejected)
\* or writes the table and broadcasts the change (Applied); flag, unflag
\* and rename merge their update into the stored header (UpdateHeader).
handleRestPost(pathname, body, uuid) ==
  LET Rejected(status, error) ==
        [response |-> [status |-> status, body |-> [error |-> error]],
         store |-> sessions, frames |-> <<>>]
      Applied(status, data, store, event) ==
        [response |-> [status |-> status, body |-> data],
         store |-> store, frames |-> broadcastToAll(event)]
      UpdateHeader(sessionId, updates) ==
        IF ~sessions[sessionId].exists THEN Rejected(404, "Session not found")
        ELSE LET header == Merge(sessions[sessionId].header, updates)
             IN  Applied(200, header, [sessions EXCEPT ![sessionId].header = header],
                         [entity |-> "session", action |-> "updated", data |-> header])
      NewHeader ==
        LET header == [id |-> uuid, createdAt |-> "server", messageCount |-> 0]
        IN  IF body.name # "" THEN Merge(header, [name |-> body.name]) ELSE header
  IN
  CASE pathname = "/actions/new-chat" ->
         Applied(201, NewHeader,
                 [sessions EXCEPT ![uuid] =
                    [exists |-> TRUE, header |-> NewHeader, messages |-> <<>>]],
                 [entity |-> "session", action |-> "created", data |-> NewHeader])
    [] pathname = "/actions/flag-session" ->
         IF body.sessionId = "" THEN Rejected(400, "Missing sessionId")
         ELSE UpdateHeader(body.sessionId, [isFlagged |-> TRUE])
    [] pathname = "/actions/unflag-session" ->
         IF body.sessionId = "" THEN Rejected(400, "Missing sessionId")
         ELSE UpdateHeader(body.sessionId, [isFlagged |-> FALSE])
    [] pathname = "/actions/rename-session" ->
         IF body.sessionId = "" \/ body.name = ""
         THEN Rejected(400, "Missing sessionId or name")
         ELSE UpdateHeader(body.sessionId, [name |-> body.name])
    [] pathname = "/actions/delete-session" ->
         IF body.sessionId = "" THEN Rejected(400, "Missing sessionId")
         ELSE Applied(200, [success |-> TRUE],
                      [sessions EXCEPT ![body.sessionId] = NoSessionRow],
                      [entity |-> "session", action |-> "deleted",
                       data |-> [id |-> body.sessionId, sessionId |-> body.sessionId]])

\* POST /actions/...; uuid is the crypto.randomUUID() of new-chat, an id no
\* session has.
HandleRestPost(pathname, body, uuid) ==
  /\ UNCHANGED clientVars
  /\ pathname = "/actions/new-chat" => ~sessions[uuid].exists
  /\ LET outcome == handleRestPost(pathname, body, uuid)
     IN  /\ restResponse' = outcome.response
         /\ sessions' = outcome.store
         /\ deleted' = Tombstones(outcome.store)
         /\ sent' = outcome.frames
  /\ UNCHANGED <<ENCRYPTION_KEY, projects, sandbox_sessions, alarmAt, alarmRun,
                 createRun, createResult, terminateRun, destroyCalls, webSockets,
                 statuses, statusLog, execRun, otherVars>>

\* ---------------------------------------------------------------------
\* CloudConnection: listeners
\* ---------------------------------------------------------------------
\* A registered callback either returns or throws when it is called.
ListenerKinds == {"returns", "throws"}

\* for (const listener of listeners) listener(x): the callbacks are called
\* in insertion order; the first exception leaves the loop and its caller.
ListenerThrows(listeners) == \E i \in DOMAIN listeners : listeners[i] = "throws"

Invoked(listeners) ==
  IF ListenerThrows(listeners)
  THEN Min({i \in DOMAIN listeners : listeners[i] = "throws"})
  ELSE Len(listeners)

Dispatch(kind, listeners) ==
  [kind |-> kind, invoked |-> Invoked(listeners), registered |-> Len(listeners),
   completed |-> ~ListenerThrows(listeners)]

OnStateChange(kind) ==
  /\ Len(conn.stateListeners) < MaxListeners
  /\ conn' = [conn EXCEPT !.stateListeners = Append(@, kind)]
  /\ notified' = NoDispatch
  /\ UNCHANGED <<sockets, promises, failures>>
  /\ UNCHANGED <<workspaceVars, bridgeVars, brokerVars>>

OnRemoteChange(kind) ==
  /\ Len(conn.changeListeners) < MaxListeners
  /\ conn' = [conn EXCEPT !.changeListeners = Append(@, kind)]
  /\ notified' = NoDispatch
  /\ UNCHANGED <<sockets, promises, failures>>
  /\ UNCHANGED <<workspaceVars, bridgeVars, brokerVars>>

\* ---------------------------------------------------------------------
\* CloudConnection: connection lifecycle
\* ---------------------------------------------------------------------
\* setState: the assignment; the listener loop follows it.
setState(c, state) == [c EXCEPT !.state = state]

scheduleReconnect_Always(c) ==
  IF c.reconnectTimer.set THEN c
  ELSE [c EXCEPT !.reconnectTimer = ArmedTimer(c.reconnectDelay)]

scheduleReconnect(c) ==
  IF ~c.shouldReconnect \/ c.reconnectTimer.set THEN c
  ELSE [c EXCEPT !.reconnectTimer = ArmedTimer(c.reconnectDelay)]

\* The catch block of the reconnect timer's callback.
Backoff(c) ==
  scheduleReconnect(
    [c EXCEPT !.reconnectDelay = Min({c.reconnectDelay * 2, MAX_RECONNECT_DELAY_MS})])

\* rejectAllPending: the promises of the entries of the map.
\* A rejectAllPending that clears the map without rejecting; C37 does not
\* hold of it.
rejectAllPending_ClearsOnly(c, p, reason) == p

rejectAllPending(c, p, reason) ==
  [id \in UUIDs |-> IF id \in c.pendingRequests THEN Settled(reason) ELSE p[id]]

FreeSockets == {k \in SocketIds : sockets[k].readyState = "unused"}

\* doConnect() on the connection c: setState('connecting'), then
\* new WebSocket(url) with its four handlers.  A state listener that throws
\* makes the promise executor throw: the promise is rejected and no socket
\* is made; the timer's callback (awaited) then runs its catch block.
doConnect(c, awaited) ==
  IF ListenerThrows(c.stateListeners)
  THEN /\ conn' = IF awaited THEN Backoff(setState(c, "connecting"))
                  ELSE setState(c, "connecting")
       /\ UNCHANGED sockets
  ELSE /\ FreeSockets # {}
       /\ conn' = setState(c, "connecting")
       /\ sockets' = [sockets EXCEPT ![Min(FreeSockets)] =
                        [readyState |-> "connecting", promise |-> "pending",
                         awaited |-> awaited, errored |-> FALSE]]

connect ==
  /\ doConnect([conn EXCEPT !.shouldReconnect = TRUE], FALSE)
  /\ notified' = Dispatch("state", conn.stateListeners)
  /\ UNCHANGED <<promises, failures>>
  /\ UNCHANGED <<workspaceVars, bridgeVars, brokerVars>>

disconnect ==
  /\ LET threw == ListenerThrows(conn.stateListeners)
         c1 == setState([conn EXCEPT !.shouldReconnect = FALSE,
                                     !.reconnectTimer = NoTimer,
                                     !.ws = NoSocket], "disconnected")
     IN  /\ conn' = IF threw THEN c1 ELSE [c1 EXCEPT !.pendingRequests = {}]
         /\ promises' = IF threw THEN promises
                        ELSE rejectAllPending(conn, promises, "Connection closed")
  /\ sockets' = IF conn.ws # NoSocket
                THEN [sockets EXCEPT ![conn.ws].readyState = "closing"]
                ELSE sockets
  /\ notified' = Dispatch("state", conn.stateListeners)
  /\ UNCHANGED failures
  /\ UNCHANGED <<workspaceVars, bridgeVars, brokerVars>>

\* The callback of the reconnect timer.
ReconnectTimerFires ==
  /\ conn.reconnectTimer.set
  /\ doConnect([conn EXCEPT !.reconnectTimer = NoTimer], TRUE)
  /\ notified' = Dispatch("state", conn.stateListeners)
  /\ UNCHANGED <<promises, failures>>
  /\ UNCHANGED <<workspaceVars, bridgeVars, brokerVars>>

\* ws.onopen
SocketOpen(k) ==
  /\ sockets[k].readyState = "connecting"
  /\ ~sockets[k].errored
  /\ conn' = setState([conn EXCEPT !.ws = k,
                                   !.reconnectDelay = INITIAL_RECONNECT_DELAY_MS],
                      "connected")
  /\ sockets' = [sockets EXCEPT ![k].readyState = "open",
                                ![k].promise = IF ListenerThrows(conn.stateListeners)
                                               THEN @ ELSE "resolved"]
  /\ notified' = Dispatch("state", conn.stateListeners)
  /\ failures' = 0
  /\ UNCHANGED promises
  /\ UNCHANGED <<workspaceVars, bridgeVars, brokerVars>>

\* ws.onerror: the socket fails; its close event follows.
SocketError(k) ==
  /\ sockets[k].readyState \in {"connecting", "open"}
  /\ ~sockets[k].errored
  /\ sockets' = [sockets EXCEPT ![k].errored = TRUE]
  /\ IF conn.state = "connecting"
     THEN /\ conn' = setState(conn, "error")
          /\ notified' = Dispatch("state", conn.stateListeners)
     ELSE /\ UNCHANGED conn
          /\ notified' = NoDispatch
  /\ UNCHANGED <<promises, failures>>
  /\ UNCHANGED <<workspaceVars, bridgeVars, brokerVars>>

\* ws.onclose, followed by the catch block of the timer's callback when the
\* handler rejected the promise that callback awaits.
SocketClose(k) ==
  /\ sockets[k].readyState \in {"connecting", "open", "closing"}
  /\ LET threw == ListenerThrows(conn.stateListeners)
         rejected == conn.state = "connecting" /\ sockets[k].promise = "pending"
         c1 == setState([conn EXCEPT !.ws = NoSocket], "disconnected")
         c2 == IF threw THEN c1
               ELSE scheduleReconnect([c1 EXCEPT !.pendingRequests = {}])
     IN  /\ conn' = IF rejected /\ sockets[k].awaited THEN Backoff(c2) ELSE c2
         /\ promises' = IF threw THEN promises
                        ELSE rejectAllPending(conn, promises, "Connection lost")
  /\ sockets' = [sockets EXCEPT ![k] = FreeSocket]
  /\ notified' = Dispatch("state", conn.stateListeners)
  /\ failures' = IF sockets[k].readyState = "connecting" THEN failures + 1 ELSE failures
  /\ UNCHANGED <<workspaceVars, bridgeVars, brokerVars>>

\* ---------------------------------------------------------------------
\* CloudConnection: send and the messages of the server
\* ---------------------------------------------------------------------
\* crypto.randomUUID(): an id no request has used.
FreshUUIDs == {id \in UUIDs : promises[id].outcome = "unsent"}

send(id) ==
  /\ FreshUUIDs # {}
  /\ id = Min(FreshUUIDs)
  /\ IF conn.ws = NoSocket \/ sockets[conn.ws].readyState # "open"
     THEN /\ promises' = [promises EXCEPT ![id] = Settled("WebSocket not connected")]
          /\ UNCHANGED conn
     ELSE /\ promises' = [promises EXCEPT ![id] = [outcome |-> "pending", elapsed |-> 0]]
          /\ conn' = [conn EXCEPT !.pendingRequests = @ \cup {id}]
  /\ notified' = NoDispatch
  /\ UNCHANGED <<sockets, failures>>
  /\ UNCHANGED <<workspaceVars, bridgeVars, brokerVars>>

\* The timer send() started runs out.
RequestTimeout(id) ==
  /\ id \in conn.pendingRequests
  /\ promises[id].elapsed >= REQUEST_TIMEOUT_MS
  /\ conn' = [conn EXCEPT !.pendingRequests = @ \ {id}]
  /\ promises' = [promises EXCEPT ![id] = Settled("Request timed out")]
  /\ notified' = NoDispatch
  /\ UNCHANGED <<sockets, failures>>
  /\ UNCHANGED <<workspaceVars, bridgeVars, brokerVars>>

\* ClockStep milliseconds pass; a timer that has run out fires first.
ClockTick ==
  /\ conn.pendingRequests # {}
  /\ \A id \in conn.pendingRequests : promises[id].elapsed < REQUEST_TIMEOUT_MS
  /\ promises' = [id \in UUIDs |->
                    IF id \in conn.pendingRequests
                    THEN [promises[id] EXCEPT
                            !.elapsed = Min({@ + ClockStep, REQUEST_TIMEOUT_MS})]
                    ELSE promises[id]]
  /\ notified' = NoDispatch
  /\ UNCHANGED <<conn, sockets, failures>>
  /\ UNCHANGED <<workspaceVars, bridgeVars, brokerVars>>

\* handleMessage, type 'response': the promise of requestId after it.
handleResponse_NoLookup(pending, p, requestId, error) ==
  [p EXCEPT ![requestId] = Settled(IF error THEN "error" ELSE "resolved")]

handleResponse(pending, p, requestId, error) ==
  IF requestId \in pending
  THEN [p EXCEPT ![requestId] = Settled(IF error THEN "error" ELSE "resolved")]
  ELSE p

\* ws.onmessage with a response frame, of any request id.
ResponseArrives(k, requestId, error) ==
  /\ sockets[k].readyState = "open"
  /\ promises' = handleResponse(conn.pendingRequests, promises, requestId, error)
  /\ conn' = [conn EXCEPT !.pendingRequests = @ \ {requestId}]
  /\ notified' = NoDispatch
  /\ UNCHANGED <<sockets, failures>>
  /\ UNCHANGED <<workspaceVars, bridgeVars, brokerVars>>

\* ws.onmessage with a broadcast frame.
BroadcastArrives(k) ==
  /\ sockets[k].readyState = "open"
  /\ notified' = Dispatch("change", conn.changeListeners)
  /\ UNCHANGED <<conn, sockets, promises, failures>>
  /\ UNCHANGED <<workspaceVars, bridgeVars, brokerVars>>

\* ---------------------------------------------------------------------
\* WorkerBridge
\* ---------------------------------------------------------------------
\* setStatus: each listener is called inside a try, so only the field counts.
setStatus(b, status) == [b EXCEPT !.status = status]

\* cleanup(): the fields, and the socket it closes.
cleanup(b) == [b EXCEPT !.pingTimer = FALSE, !.reconnectTimer = NoTimer, !.ws = NoSocket]

cleanupSockets(b, socks) ==
  IF b.ws # NoSocket /\ socks[b.ws].readyState \in {"open", "connecting"}
  THEN [socks EXCEPT ![b.ws].readyState = "closing"]
  ELSE socks

WorkerBridge_scheduleReconnect_NoBackoff(b) ==
  IF b.stopped \/ b.reconnectTimer.set THEN b
  ELSE [b EXCEPT !.reconnectTimer = ArmedTimer(b.reconnectDelay)]

\* WorkerBridge.scheduleReconnect
WorkerBridge_scheduleReconnect(b) ==
  IF b.stopped \/ b.reconnectTimer.set THEN b
  ELSE [b EXCEPT !.reconnectTimer = ArmedTimer(b.reconnectDelay),
                 !.reconnectDelay = Min({b.reconnectDelay * 2, b.maxReconnectDelay})]

FreeBridgeSockets(socks) == {k \in BridgeSocketIds : socks[k].readyState = "unused"}

\* WorkerBridge.connect() on the bridge b with the sockets socks.
WorkerBridge_connect(b, socks) ==
  IF b.config = "null" \/ b.stopped
  THEN /\ bridge' = b
       /\ bridgeSockets' = socks
  ELSE LET b1 == setStatus(cleanup(b), "connecting")
           socks1 == cleanupSockets(b, socks)
       IN  IF b.config = "malformed"
           THEN /\ bridge' = WorkerBridge_scheduleReconnect(setStatus(b1, "error"))
                /\ bridgeSockets' = socks1
           ELSE /\ FreeBridgeSockets(socks1) # {}
                /\ bridge' = [b1 EXCEPT !.ws = Min(FreeBridgeSockets(socks1))]
                /\ bridgeSockets' =
                     [socks1 EXCEPT ![Min(FreeBridgeSockets(socks1))] =
                        [readyState |-> "connecting", errored |-> FALSE, authSent |-> FALSE]]

start(config) ==
  /\ WorkerBridge_connect([bridge EXCEPT !.stopped = FALSE, !.config = config,
                                         !.reconnectDelay = 1000],
                          bridgeSockets)
  /\ UNCHANGED <<workspaceVars, connVars, brokerVars>>

stop ==
  /\ bridge' = setStatus(cleanup([bridge EXCEPT !.stopped = TRUE]), "disconnected")
  /\ bridgeSockets' = cleanupSockets(bridge, bridgeSockets)
  /\ UNCHANGED <<workspaceVars, connVars, brokerVars>>

\* restart(config): cleanup(), then start(config).
restart(config) ==
  /\ WorkerBridge_connect([cleanup(bridge) EXCEPT !.stopped = FALSE, !.config = config,
                                                  !.reconnectDelay = 1000],
                          cleanupSockets(bridge, bridgeSockets))
  /\ UNCHANGED <<workspaceVars, connVars, brokerVars>>

\* The callback of the bridge's reconnect timer.
WorkerBridge_ReconnectTimerFires ==
  /\ bridge.reconnectTimer.set
  /\ WorkerBridge_connect([bridge EXCEPT !.reconnectTimer = NoTimer], bridgeSockets)
  /\ UNCHANGED <<workspaceVars, connVars, brokerVars>>

\* 'open' listener: send the auth frame on this.ws if that socket is open,
\* and start the ping interval.
BridgeSocketOpen(k) ==
  /\ bridgeSockets[k].readyState = "connecting"
  /\ ~bridgeSockets[k].errored
  /\ LET socks == [bridgeSockets EXCEPT ![k].readyState = "open"]
     IN  bridgeSockets' =
           IF bridge.ws # NoSocket /\ socks[bridge.ws].readyState = "open"
           THEN [socks EXCEPT ![bridge.ws].authSent = TRUE]
           ELSE socks
  /\ bridge' = [bridge EXCEPT !.pingTimer = TRUE]
  /\ UNCHANGED <<workspaceVars, connVars, brokerVars>>

\* The frames the broker sends that change the bridge.
WorkerMessages == {"auth_ok", "auth_error"}

\* handleMessage of the bridge
WorkerBridge_handleMessage(b, type) ==
  CASE type = "auth_ok" -> [setStatus(b, "connected") EXCEPT !.reconnectDelay = 1000]
    [] type = "auth_error" -> [setStatus(b, "error") EXCEPT !.stopped = TRUE]
    [] OTHER -> b

\* 'message' listener: the broker's answer to the auth frame sent on k.
BridgeSocketMessage(k, type) ==
  /\ bridgeSockets[k].readyState = "open"
  /\ bridgeSockets[k].authSent
  /\ bridge' = WorkerBridge_handleMessage(bridge, type)
  /\ UNCHANGED bridgeSockets
  /\ UNCHANGED <<workspaceVars, connVars, brokerVars>>

\* 'error' listener: the socket fails; its close event follows.
BridgeSocketError(k) ==
  /\ bridgeSockets[k].readyState \in {"connecting", "open"}
  /\ ~bridgeSockets[k].errored
  /\ bridgeSockets' = [bridgeSockets EXCEPT ![k].errored = TRUE]
  /\ bridge' = setStatus(bridge, "error")
  /\ UNCHANGED <<workspaceVars, connVars, brokerVars>>

\* 'close' listener
BridgeSocketClose(k) ==
  /\ bridgeSockets[k].readyState \in {"connecting", "open", "closing"}
  /\ bridgeSockets' = [bridgeSockets EXCEPT ![k] = FreeBridgeSocket]
  /\ bridge' = IF bridge.stopped
               THEN [bridge EXCEPT !.pingTimer = FALSE]
               ELSE WorkerBridge_scheduleReconnect(
                      setStatus([bridge EXCEPT !.pingTimer = FALSE], "disconnected"))
  /\ UNCHANGED <<workspaceVars, connVars, brokerVars>>

\* ---------------------------------------------------------------------
\* BridgeDurableObject: the control socket of a client
\* ---------------------------------------------------------------------
\* The frames a client sends: text that is not JSON, auth with the right or
\* a wrong key, ack, ping, and a message of a type the switch does not know.
BrokerFrames == {"badjson", "auth", "auth:wrong", "ack", "ping", "other"}

\* handleWebSocket: accept the socket and register the client.
BrokerHandleWebSocket(c) ==
  /\ ~clients[c].connected
  /\ clients' = [clients EXCEPT ![c] = [connected |-> TRUE, authenticated |-> FALSE,
                                        closeTimer |-> FALSE]]
  /\ brokerSent' = <<>>
  /\ UNCHANGED <<workspaceVars, connVars, bridgeVars, queries, brokerResponse>>

\* The reply of the 'message' listener to a frame, if any.
BrokerReply(c, frame) ==
  CASE frame = "auth" -> <<[to |-> c, msg |-> [type |-> "auth_ok"]]>>
    [] frame = "auth:wrong" -> <<[to |-> c, msg |-> [type |-> "auth_error"]]>>
    [] frame = "ping" -> <<[to |-> c, msg |-> [type |-> "pong"]]>>
    [] OTHER -> <<>>

\* 'message' listener of a client socket, with handleAuth.
BrokerMessage(c, frame) ==
  /\ clients[c].connected
  /\ clients' = CASE frame = "auth" -> [clients EXCEPT ![c].authenticated = TRUE]
                  [] frame = "auth:wrong" -> [clients EXCEPT ![c].closeTimer = TRUE]
                  [] OTHER -> clients
  /\ brokerSent' = BrokerReply(c, frame)
  /\ UNCHANGED <<workspaceVars, connVars, bridgeVars, queries, brokerResponse>>

\* The timer handleAuth starts after a wrong key: close(4001) and forget.
BrokerRejectTimerFires(c) ==
  /\ clients[c].closeTimer
  /\ clients' = [clients EXCEPT ![c] = NoClient]
  /\ brokerSent' = <<>>
  /\ UNCHANGED <<workspaceVars, connVars, bridgeVars, queries, brokerResponse>>

\* 'close' / 'error' listener of a client socket.
BrokerClose(c) ==
  /\ clients[c].connected
  /\ clients' = [clients EXCEPT ![c] = NoClient]
  /\ brokerSent' = <<>>
  /\ UNCHANGED <<workspaceVars, connVars, bridgeVars, queries, brokerResponse>>

\* ---------------------------------------------------------------------
\* BridgeDurableObject: /action and /query
\* ---------------------------------------------------------------------
\* A relay that takes every connected client; C27 does not hold of it.
AuthenticatedClients_AllConnected == {c \in ClientIds : clients[c].connected}

\* The clients of the map with authenticated set.
AuthenticatedClients == {c \in ClientIds : clients[c].connected /\ clients[c].authenticated}

\* handleAction: 400 without a craftagents:// URL, else the action to every
\* authenticated client, 200 if one was counted and 503 if none.
handleAction(actionUrl) ==
  /\ IF actionUrl # "craftagents://"
     THEN /\ brokerResponse' = 400
          /\ brokerSent' = <<>>
     ELSE /\ brokerSent' = SendEach(AuthenticatedClients, [type |-> "action"])
          /\ brokerResponse' = IF AuthenticatedClients # {} THEN 200 ELSE 503
  /\ UNCHANGED <<workspaceVars, connVars, bridgeVars, clients, queries>>

\* The error field of a query_response; "" is a response without one.
QueryErrors == {"", "Workspace not found", "Query timed out", "failed"}

\* The status handleQuery answers with once its promise is resolved.
QueryStatus(error) ==
  CASE error = "" -> 200
    [] error = "Query timed out" -> 504
    [] error = "Workspace not found" -> 404
    [] OTHER -> 502

\* The promise of query q resolved: handleQuery returns its response.
Replied(query, error) ==
  [query EXCEPT !.phase = "replied", !.status = QueryStatus(error), !.replies = @ + 1,
                !.target = 0]

\* handleQuery up to its await: 400 without a resource, 503 without an
\* authenticated client, else the entry, the timer and the query to the
\* first authenticated client.  q is the crypto.randomUUID() of the request;
\* which authenticated client comes first in the map is left open.
handleQuery(q, resource) ==
  /\ queries[q].phase = "unused"
  /\ IF resource = ""
     THEN /\ queries' = [queries EXCEPT ![q] = [NoQuery EXCEPT !.phase = "replied",
                                                            !.status = 400, !.replies = 1]]
          /\ brokerSent' = <<>>
     ELSE IF AuthenticatedClients = {}
     THEN /\ queries' = [queries EXCEPT ![q] = [NoQuery EXCEPT !.phase = "replied",
                                                            !.status = 503, !.replies = 1]]
          /\ brokerSent' = <<>>
     ELSE \E targetClientId \in AuthenticatedClients :
            /\ queries' = [queries EXCEPT ![q] = [NoQuery EXCEPT !.phase = "waiting",
                                                              !.entry = TRUE, !.timer = TRUE,
                                                              !.target = targetClientId]]
            /\ brokerSent' = <<[to |-> targetClientId, msg |-> [type |-> "query", id |-> q]]>>
  /\ UNCHANGED <<workspaceVars, connVars, bridgeVars, clients, brokerResponse>>

\* A query_response that resolves without clearing the timeout; C26 does not
\* hold of it.
QueryAnswered_KeepsTimer(query, error) == [Replied(query, error) EXCEPT !.entry = FALSE]

\* 'message' listener, case 'query_response', for an id that is pending.
QueryAnswered(query, error) ==
  [Replied(query, error) EXCEPT !.entry = FALSE, !.timer = FALSE]

\* 'message' listener of a client socket, case 'query_response'.
BrokerQueryResponse(c, q, error) ==
  /\ clients[c].connected
  /\ queries' = IF queries[q].entry
                THEN [queries EXCEPT ![q] = QueryAnswered(queries[q], error)]
                ELSE queries
  /\ brokerSent' = <<>>
  /\ UNCHANGED <<workspaceVars, connVars, bridgeVars, clients, brokerResponse>>

\* The timeout of query q runs out.
BrokerQueryTimeout(q) ==
  /\ queries[q].timer
  /\ queries[q].elapsed >= QUERY_TIMEOUT_MS
  /\ queries' = [queries EXCEPT ![q] =
                   IF queries[q].phase = "waiting"
                   THEN [Replied(queries[q], "Query timed out") EXCEPT !.entry = FALSE,
                                                                       !.timer = FALSE]
                   ELSE [queries[q] EXCEPT !.entry = FALSE, !.timer = FALSE]]
  /\ brokerSent' = <<>>
  /\ UNCHANGED <<workspaceVars, connVars, bridgeVars, clients, brokerResponse>>

\* QueryStep milliseconds pass, or as many as the next timeout has left; a
\* timeout that has run out fires first.
BrokerTick ==
  /\ \E q \in QueryIds : queries[q].timer
  /\ \A q \in QueryIds : queries[q].timer => queries[q].elapsed < QUERY_TIMEOUT_MS
  /\ queries' = [q \in QueryIds |->
                   IF queries[q].timer
                   THEN [queries[q] EXCEPT
                           !.elapsed = Min({@ + QueryStep, QUERY_TIMEOUT_MS})]
                   ELSE queries[q]]
  /\ UNCHANGED <<workspaceVars, connVars, bridgeVars, clients, brokerSent, brokerResponse>>

\* ---------------------------------------------------------------------
\* Specifications
\* ---------------------------------------------------------------------
ValidCredential ==
  [accessToken |-> "ghp_secret", username |-> "octocat", expiresAt |-> NoExpiry]

\* A credential that lapses TimeStep minutes after it is stored.
ShortCredential ==
  [accessToken |-> "ghp_secret", username |-> "octocat",
   expiresAt |-> ExpiresAt(now + TimeStep)]

\* The sandbox session lifecycle driven over REST: create, heartbeat,
\* terminate, the sweep, and the passing of time.
NextSandbox ==
  \/ Tick
  \/ \E r \in RepoKeys : StoreGitHubCredential(r, ValidCredential)
  \/ \E r \in RepoKeys, b \in Branches, hostOk \in BOOLEAN : CreateSandboxSession(r, b, hostOk)
  \/ \E s \in SessionIds, ok \in BOOLEAN : CreateCloneReturn(s, ok)
  \/ \E s \in SessionIds, ok \in BOOLEAN : CreateCheckoutReturn(s, ok)
  \/ \E s \in SessionIds : RestHeartbeat(s)
  \/ \E s \in SessionIds : TerminateStart(s)
  \/ \E s \in SessionIds : TerminateReturn(s)
  \/ AlarmFire
  \/ AlarmDestroyReturn

SpecSandbox == Init /\ [][NextSandbox]_vars

\* The lifecycle without terminate calls: sessions end by the sweep alone.
NextSweep ==
  \/ Tick
  \/ \E r \in RepoKeys : StoreGitHubCredential(r, ValidCredential)
  \/ \E r \in RepoKeys, b \in Branches, hostOk \in BOOLEAN : CreateSandboxSession(r, b, hostOk)
  \/ \E s \in SessionIds, ok \in BOOLEAN : CreateCloneReturn(s, ok)
  \/ \E s \in SessionIds, ok \in BOOLEAN : CreateCheckoutReturn(s, ok)
  \/ \E s \in SessionIds : RestHeartbeat(s)
  \/ AlarmFire
  \/ AlarmDestroyReturn

\* Under the scheduling the runtime provides: time passes, a due alarm
\* fires, and every awaited host call settles.  Requests of clients are
\* under no obligation to arrive.
FairSweep ==
  /\ Init /\ [][NextSweep]_vars
  /\ WF_vars(Tick)
  /\ WF_vars(AlarmFire)
  /\ WF_vars(AlarmDestroyReturn)
  /\ \A s \in SessionIds : WF_vars(\E ok \in BOOLEAN : CreateCloneReturn(s, ok))
  /\ \A s \in SessionIds : WF_vars(\E ok \in BOOLEAN : CreateCheckoutReturn(s, ok))

\* Sessions kept alive over REST and over their sandbox socket, and the sweep.
NextSocket ==
  \/ Tick
  \/ \E r \in RepoKeys : StoreGitHubCredential(r, ValidCredential)
  \/ \E r \in RepoKeys, b \in Branches, hostOk \in BOOLEAN : CreateSandboxSession(r, b, hostOk)
  \/ \E s \in SessionIds, ok \in BOOLEAN : CreateCloneReturn(s, ok)
  \/ \E s \in SessionIds, ok \in BOOLEAN : CreateCheckoutReturn(s, ok)
  \/ \E s \in SessionIds : RestHeartbeat(s)
  \/ \E c \in SandboxConnIds, s \in SessionIds : HandleSandboxWebSocket(c, s)
  \/ \E c \in SandboxConnIds : WebSocketClose(c)
  \/ \E c \in SandboxConnIds, f \in SandboxFrames : HandleSandboxMessage(c, f)
  \/ AlarmFire
  \/ AlarmDestroyReturn

SpecSocket == Init /\ [][NextSocket]_vars

\* Project credentials (stored, revoked, lapsing, sealed under a key that is
\* later replaced) and the creation of sessions.
NextCred ==
  \/ Tick
  \/ \E r \in RepoKeys, cred \in {ValidCredential, ShortCredential} :
        StoreGitHubCredential(r, cred)
  \/ \E r \in RepoKeys : RevokeGitHubCredential(r)
  \/ \E k \in EncryptionKeys : RotateKey(k)
  \/ \E r \in RepoKeys : CheckProjectAuth(r)
  \/ \E r \in RepoKeys, b \in Branches, hostOk \in BOOLEAN : CreateSandboxSession(r, b, hostOk)
  \/ \E s \in SessionIds, ok \in BOOLEAN : CreateCloneReturn(s, ok)
  \/ \E s \in SessionIds, ok \in BOOLEAN : CreateCheckoutReturn(s, ok)

SpecCred == Init /\ [][NextCred]_vars

\* The sync protocol, with sandbox sessions created so that sandbox-tagged
\* connections are among the connected sockets.
NextSync ==
  \/ \E c \in ConnIds : AcceptSyncSocket(c)
  \/ \E c \in ConnIds : WebSocketClose(c)
  \/ \E c \in ConnIds, msg \in SyncFrames : WebSocketMessage(c, msg)
  \/ \E r \in RepoKeys : StoreGitHubCredential(r, ValidCredential)
  \/ \E r \in RepoKeys : CreateSandboxSession(r, "main", TRUE)
  \/ \E s \in SessionIds : CreateCloneReturn(s, TRUE)
  \/ \E c \in SandboxConnIds, s \in SessionIds : HandleSandboxWebSocket(c, s)

SpecSync == Init /\ [][NextSync]_vars

\* statuses:save from several sync clients; MaxSaves commands are followed.
NextStatuses ==
  \/ \E c \in ConnIds : AcceptSyncSocket(c)
  \/ \E c \in ConnIds : WebSocketClose(c)
  \/ \E c \in ConnIds, msg \in StatusFrames :
       Len(statusLog) < MaxSaves /\ WebSocketMessage(c, msg)

SpecStatuses == Init /\ [][NextStatuses]_vars

\* The broker: clients connect, authenticate and leave while actions and
\* queries are requested.
NextBroker ==
  \/ \E c \in ClientIds : BrokerHandleWebSocket(c)
  \/ \E c \in ClientIds, f \in BrokerFrames : BrokerMessage(c, f)
  \/ \E c \in ClientIds : BrokerRejectTimerFires(c)
  \/ \E c \in ClientIds : BrokerClose(c)
  \/ \E actionUrl \in {"craftagents://", ""} : handleAction(actionUrl)
  \/ \E q \in QueryIds, resource \in {"sessions", ""} : handleQuery(q, resource)
  \/ \E c \in ClientIds, q \in QueryIds, error \in QueryErrors :
       BrokerQueryResponse(c, q, error)
  \/ \E q \in QueryIds : BrokerQueryTimeout(q)
  \/ BrokerTick

SpecBroker == Init /\ [][NextBroker]_vars

\* A timer that has run out fires, and time passes.
FairBroker ==
  /\ SpecBroker
  /\ \A q \in QueryIds : WF_vars(BrokerQueryTimeout(q))
  /\ WF_vars(BrokerTick)

\* Execute requests on a sandbox connection, with keep-alives in between;
\* MaxEvents events of a stream are followed.
NextExec ==
  \/ \E r \in RepoKeys : StoreGitHubCredential(r, ValidCredential)
  \/ \E r \in RepoKeys : CreateSandboxSession(r, "main", TRUE)
  \/ \E s \in SessionIds : CreateCloneReturn(s, TRUE)
  \/ \E c \in SandboxConnIds, s \in SessionIds : HandleSandboxWebSocket(c, s)
  \/ \E c \in SandboxConnIds, f \in {"ping", "heartbeat"} : HandleSandboxMessage(c, f)
  \/ \E c \in SandboxConnIds, request \in ExecuteRequests, starts \in BOOLEAN :
       HandleExecute(c, request, starts)
  \/ \E c \in SandboxConnIds, event \in SSEEvents :
       Len(execRun[c].arrived) < MaxEvents /\ HandleStreamEvent(c, event)

SpecExec == Init /\ [][NextExec]_vars

\* The sync commands that change a session's header.
HeaderFrames ==
  {msg \in SyncFrames : msg.type \in {"session:create", "session:updateMeta",
                                       "session:updateSdkId", "session:delete"}}

\* One workspace serving an execute on its sandbox connection, sync
\* commands on its sync connections and REST actions, all on one session
\* and with one sandbox session.
NextMixed ==
  \/ \E c \in ConnIds \ SandboxConnIds : AcceptSyncSocket(c)
  \/ \E c \in ConnIds, msg \in HeaderFrames : WebSocketMessage(c, msg)
  \/ \E pathname \in ActionPaths \ {"/actions/new-chat"}, body \in ActionBodies,
         uuid \in SessionKeys :
       body.sessionId # "" /\ HandleRestPost(pathname, body, uuid)
  \/ \E r \in RepoKeys : StoreGitHubCredential(r, ValidCredential)
  \/ \E r \in RepoKeys : ~HasRow(1) /\ CreateSandboxSession(r, "main", TRUE)
  \/ \E s \in SessionIds : CreateCloneReturn(s, TRUE)
  \/ \E c \in SandboxConnIds, s \in SessionIds : HandleSandboxWebSocket(c, s)
  \/ \E c \in SandboxConnIds :
       HandleExecute(c, [task |-> "task", anthropicApiKey |-> "sealed"], TRUE)
  \/ \E c \in SandboxConnIds,
         event \in {[type |-> "stdout", data |-> <<"l1">>], [type |-> "complete", exitCode |-> 0]} :
       Len(execRun[c].arrived) < MaxEvents /\ HandleStreamEvent(c, event)

SpecMixed == Init /\ [][NextMixed]_vars

\* CloudSyncManager: getProvider calls that overlap, and disconnect.
NextManager ==
  \/ \E k \in CallIds : GetProviderStart(k)
  \/ \E k \in CallIds, found \in BOOLEAN : GetProviderCredential(k, found)
  \/ \E k \in CallIds, ok \in BOOLEAN : GetProviderInitialized(k, ok)
  \/ DisconnectStart
  \/ DisconnectFinish

SpecManager == Init /\ [][NextManager]_vars

\* The file worker: uploads, GET requests and the passing of time.
NextFiles ==
  \/ \E path \in FileKeys : FilePut(path)
  \/ \E request \in FileRequests : FileGet(request)
  \/ FileTick

SpecFiles == Init /\ [][NextFiles]_vars

\* The REST actions on sessions, with sync clients and sandbox-tagged
\* connections among the connected sockets.
NextRest ==
  \/ \E c \in ConnIds : AcceptSyncSocket(c)
  \/ \E c \in ConnIds : WebSocketClose(c)
  \/ \E r \in RepoKeys : StoreGitHubCredential(r, ValidCredential)
  \/ \E r \in RepoKeys : CreateSandboxSession(r, "main", TRUE)
  \/ \E s \in SessionIds : CreateCloneReturn(s, TRUE)
  \/ \E c \in SandboxConnIds, s \in SessionIds : HandleSandboxWebSocket(c, s)
  \/ \E pathname \in ActionPaths, body \in ActionBodies, uuid \in SessionKeys :
       HandleRestPost(pathname, body, uuid)

SpecRest == Init /\ [][NextRest]_vars

\* The connection manager of a cloud workspace: callers connect, disconnect
\* and send; the sockets open, fail and close; the server answers; timers
\* run out.
NextConn ==
  \/ connect /\ failures < MaxRetries
  \/ disconnect
  \/ ReconnectTimerFires /\ failures < MaxRetries
  \/ \E k \in SocketIds : SocketOpen(k)
  \/ \E k \in SocketIds : SocketError(k)
  \/ \E k \in SocketIds : SocketClose(k)
  \/ \E id \in UUIDs : send(id)
  \/ \E id \in UUIDs : RequestTimeout(id)
  \/ ClockTick
  \/ \E k \in SocketIds, id \in UUIDs, error \in BOOLEAN : ResponseArrives(k, id, error)

SpecConn == Init /\ [][NextConn]_vars

\* SpecConn with time passing and the timers of send() firing.
FairConn ==
  /\ SpecConn
  /\ WF_vars(ClockTick)
  /\ \A id \in UUIDs : WF_vars(RequestTimeout(id))

\* The connection manager with listeners, some of which throw; the change
\* listeners are registered before the first connect(); one request is sent.
NextListeners ==
  \/ \E kind \in ListenerKinds : OnStateChange(kind)
  \/ \E kind \in ListenerKinds : OnRemoteChange(kind) /\ FreeSockets = SocketIds
  \/ connect /\ failures < MaxRetries
  \/ disconnect
  \/ ReconnectTimerFires /\ failures < MaxRetries
  \/ \E k \in SocketIds : SocketOpen(k)
  \/ \E k \in SocketIds : SocketClose(k)
  \/ send(Min(UUIDs))
  \/ \E k \in SocketIds : BroadcastArrives(k)

SpecListeners == Init /\ [][NextListeners]_vars

\* One connect() call and the reconnect attempts that follow it, with no
\* listener registered.
NextBackoff ==
  \/ connect /\ conn.state = "disconnected" /\ ~conn.reconnectTimer.set
             /\ failures < MaxFailures
  \/ ReconnectTimerFires /\ failures < MaxFailures
  \/ \E k \in SocketIds : SocketOpen(k)
  \/ \E k \in SocketIds : SocketError(k)
  \/ \E k \in SocketIds : SocketClose(k)

SpecBackoff == Init /\ [][NextBackoff]_vars

\* The bridge of the desktop app: it is started, stopped and restarted, its
\* sockets open, fail and close, and the broker answers the auth frame.
NextBridge ==
  \/ \E config \in WorkerUrls : start(config)
  \/ stop
  \/ \E config \in WorkerUrls : restart(config)
  \/ WorkerBridge_ReconnectTimerFires
  \/ \E k \in BridgeSocketIds : BridgeSocketOpen(k)
  \/ \E k \in BridgeSocketIds, type \in WorkerMessages : BridgeSocketMessage(k, type)
  \/ \E k \in BridgeSocketIds : BridgeSocketError(k)
  \/ \E k \in BridgeSocketIds : BridgeSocketClose(k)

SpecBridge == Init /\ [][NextBridge]_vars

\* The three channels that take frames from clients: the sync sockets and
\* the sandbox sockets of a workspace, and the control sockets of the broker.
\* The sync clients send frames that fail and session:create.
ChannelFrames == {msg \in SyncFrames : msg.type \in {"badjson", "bogus", "session:create"}}

NextChannels ==
  \/ \E c \in ConnIds : AcceptSyncSocket(c)
  \/ \E c \in ConnIds : WebSocketClose(c)
  \/ \E c \in ConnIds, msg \in ChannelFrames : WebSocketMessage(c, msg)
  \/ \E r \in RepoKeys : StoreGitHubCredential(r, ValidCredential)
  \/ \E r \in RepoKeys : CreateSandboxSession(r, "main", TRUE)
  \/ \E s \in SessionIds : CreateCloneReturn(s, TRUE)
  \/ \E c \in SandboxConnIds, s \in SessionIds : HandleSandboxWebSocket(c, s)
  \/ \E c \in SandboxConnIds, f \in SandboxFrames : HandleSandboxMessage(c, f)
  \/ \E c \in ClientIds : BrokerHandleWebSocket(c)
  \/ \E c \in ClientIds, f \in BrokerFrames : BrokerMessage(c, f)
  \/ \E c \in ClientIds : BrokerRejectTimerFires(c)
  \/ \E c \in ClientIds : BrokerClose(c)

SpecChannels == Init /\ [][NextChannels]_vars

\* ---------------------------------------------------------------------
\* Properties
\* ---------------------------------------------------------------------
Status(s) == sandbox_sessions[s].status

\* C3: once the status of a session row is 'expired', no step sets it to a
\* status other than 'expired' (the row may only be deleted).
C3_ExpiredIsTerminal ==
  [][\A s \in SessionIds :
       Status(s) = "expired" => sandbox_sessions'[s].status \in {"expired", "none"}]_vars

\* C4: for each session the host's destroy() is invoked at most once.
C4_DestroyAtMostOnce == \A s \in SessionIds : destroyCalls[s] <= 1

\* C5: a ready session whose expires_at has passed is marked expired (or
\* deleted), unless a heartbeat extends it first.
C5_IdleSessionExpires ==
  \A s \in SessionIds :
    (Status(s) = "ready" /\ sandbox_sessions[s].expires_at < now)
      ~> (Status(s) # "ready" \/ sandbox_sessions[s].expires_at >= now)

\* C7: every row that becomes expired is eventually deleted by the sweep: it
\* does not stay an expired row for ever.
C7_ExpiredEventuallyDeleted ==
  \A s \in SessionIds : (Status(s) = "expired") ~> (Status(s) # "expired")

\* ----- C6 -----
Range(q) == {q[i] : i \in DOMAIN q}

\* The sweep marks row s expired in this step (a failing create does so too,
\* and settles its call in the same step).
SweepMarks(s) ==
  /\ Status(s) \notin {"expired", "none"}
  /\ sandbox_sessions'[s].status = "expired"
  /\ createResult'[s] = createResult[s]

HeartbeatRow == [status |-> "ready", last_activity_at |-> now, expires_at |-> now + IDLE_TTL]

\* A step that answers a ping or heartbeat frame on a sandbox socket.
KeepAliveAnswered ==
  /\ sent' # <<>>
  /\ sent'[1].msg.type \in {"pong", "heartbeat_ack"}

\* C6: a heartbeat sets last_activity_at to now, expires_at to now + 30
\* minutes and the status to ready: every step that moves a row's last
\* activity forward, and every step that answers a keep-alive frame on the
\* session's socket, leaves the row so.  The sweep marks expired only rows
\* it selected when it started, and it selects only rows whose last activity
\* is more than 30 minutes old.
C6_HeartbeatKeepsAlive ==
  [][/\ \A s \in SessionIds :
          (HasRow(s) /\ sandbox_sessions'[s].status # "none"
           /\ sandbox_sessions'[s].last_activity_at > sandbox_sessions[s].last_activity_at)
            => sandbox_sessions'[s] = HeartbeatRow
     /\ KeepAliveAnswered =>
          LET s == webSockets[sent'[1].to].sessionId
          IN  HasRow(s) => sandbox_sessions'[s] = HeartbeatRow
     /\ \A s \in SessionIds :
          SweepMarks(s) => alarmRun.pc = "destroy" /\ s = Head(alarmRun.queue)
     /\ (alarmRun.pc = "idle" /\ alarmRun'.pc = "destroy") =>
          \A s \in Range(alarmRun'.queue) :
            now - sandbox_sessions[s].last_activity_at > IDLE_TTL
    ]_vars

\* A session kept alive over its socket is ready while the sweep has
\* expired the other one.
C6_Witness ==
  \E s, u \in SessionIds :
    /\ Status(u) = "expired" /\ destroyCalls[u] = 1
    /\ sandbox_sessions[s] = HeartbeatRow /\ destroyCalls[s] = 0
    /\ sent # <<>>
    /\ sent[1].msg.type = "heartbeat_ack"
    /\ webSockets[sent[1].to] = SandboxSocket(s)

\* ----- C8 -----
\* A step in which alarm() reaches its end: out of the loop, or straight
\* through when no row was selected.
SweepEnds ==
  \/ alarmRun.pc = "destroy" /\ alarmRun'.pc = "idle"
  \/ /\ alarmRun.pc = "idle" /\ alarmRun'.pc = "idle"
     /\ alarmAt.set /\ alarmAt.at <= now
     /\ alarmAt' # alarmAt
     /\ createResult' = createResult

SweepNow == IF alarmRun.pc = "destroy" THEN alarmRun.now ELSE now

\* C8: at the end of a sweep the alarm is set again (one period after the
\* sweep started) iff a non-expired row remains, and otherwise left as it
\* is, which is unset unless a create scheduled it meanwhile; the alarm
\* becomes scheduled only by such a sweep or by a create that completes.
C8_RearmIffActive ==
  [][/\ SweepEnds =>
          IF ActiveSessions(sandbox_sessions') > 0
          THEN alarmAt' = AlarmSetAt(SweepNow + ALARM_PERIOD)
          ELSE alarmAt' = IF alarmRun.pc = "destroy" THEN alarmAt ELSE NoAlarm
     /\ (~alarmAt.set /\ alarmAt'.set) =>
          \/ createResult' # createResult
          \/ SweepEnds /\ ActiveSessions(sandbox_sessions') > 0
    ]_vars

\* The sweep has expired the last session and the alarm is not scheduled.
C8_Witness ==
  /\ \E s \in SessionIds : Status(s) = "expired" /\ destroyCalls[s] = 1
  /\ \A s \in SessionIds : Status(s) \in {"expired", "none"} /\ createRun[s].pc = "none"
                           /\ ~terminateRun[s]
  /\ alarmRun.pc = "idle"
  /\ ~alarmAt.set

\* ----- C9 -----
\* C9: a session row is inserted only when the project holds a valid
\* credential: present, decryptable and not past its expiry.
C9_NoRowWithoutValidCredential ==
  [][\A s \in SessionIds :
       (Status(s) = "none" /\ sandbox_sessions'[s].status # "none")
         => \E r \in RepoKeys : checkProjectAuthReady(r)]_vars

\* ----- C10 -----
\* C10: when a create call fails after the insert, the row is not ready at
\* that moment and is expired afterwards.
C10_FailedCreateNeverReady ==
  [][\A s \in SessionIds :
       (createResult[s] = "pending" /\ createResult'[s] = "error")
         => /\ Status(s) # "ready"
            /\ sandbox_sessions'[s].status \in {"expired", "none"}]_vars

\* ----- C1, C2 -----
FramesTo(c, type) == {i \in DOMAIN sent : sent[i].to = c /\ sent[i].msg.type = type}

Succeeded(i) == sent[i].msg.type = "response" /\ "error" \notin DOMAIN sent[i].msg

\* C1: when a sync command of connection a succeeds, a is sent exactly one
\* response and no broadcast, every other sync connection exactly one
\* broadcast and no response, and every other connection nothing.
C1_ResponseAndBroadcast ==
  \A i \in DOMAIN sent :
    Succeeded(i) =>
      LET a == sent[i].to
      IN  /\ Cardinality(FramesTo(a, "response")) = 1
          /\ FramesTo(a, "broadcast") = {}
          /\ \A c \in ConnIds \ {a} :
               IF webSockets[c].kind = "sync"
               THEN /\ Cardinality(FramesTo(c, "broadcast")) = 1
                    /\ FramesTo(c, "response") = {}
               ELSE \A j \in DOMAIN sent : sent[j].to # c

\* A command succeeded while a peer and a sandbox socket were connected.
C1_Witness ==
  /\ \E i \in DOMAIN sent : Succeeded(i)
  /\ \E j \in DOMAIN sent : sent[j].msg.type = "broadcast"
  /\ \E c \in ConnIds : webSockets[c].kind = "sandbox"

\* The session a change event is about: its data carries the id as 'id' (a
\* header) or as 'sessionId' (a command payload).
EventKey(data) == IF "id" \in DOMAIN data THEN data.id ELSE data.sessionId

\* C2: the data of a broadcast 'created' or 'updated' session event is what
\* a bulk read returns for that session right after the mutation: the
\* persisted header.
C2_BroadcastIsPersistedRecord ==
  \A i \in DOMAIN sent :
    (sent[i].msg.type = "broadcast" /\ sent[i].msg.event.action # "deleted")
      => LET k == EventKey(sent[i].msg.event.data)
         IN  sessions[k].exists => sent[i].msg.event.data = ReadSession(k)

\* ---------------------------------------------------------------------
\* CloudConnection
\* ---------------------------------------------------------------------
LiveSockets == {k \in SocketIds : sockets[k].readyState \in {"connecting", "open"}}

\* C11: connect() is idempotent: a call made while connecting or connected
\* opens no second WebSocket, so a CloudConnection never has more than one
\* socket that is connecting or open.
C11_AtMostOneSocket == Cardinality(LiveSockets) <= 1

BackoffDelay(n) == Min({INITIAL_RECONNECT_DELAY_MS * 2^n, MAX_RECONNECT_DELAY_MS})

\* C12: after N connection attempts that failed in a row the delay of the
\* reconnect timer is min(1s * 2^N, 30s) (N counted from the first attempt,
\* or from the first reconnect attempt), in whatever order the error and
\* close events of the socket arrive; after a successful connection it is 1s.
C12_BackoffDelay ==
  conn.reconnectTimer.set =>
    IF failures = 0
    THEN conn.reconnectTimer.delay = INITIAL_RECONNECT_DELAY_MS
    ELSE conn.reconnectTimer.delay \in {BackoffDelay(failures), BackoffDelay(failures - 1)}

\* The close event of socket k is delivered in this step.
Closes(k) == sockets[k].readyState # "unused" /\ sockets'[k].readyState = "unused"

\* C14: when a socket closes and disconnect() was not called, every pending
\* request is rejected with 'Connection lost', the pending map is empty, the
\* state is disconnected and one reconnect timer is scheduled.
C14_CloseRejectsAndReschedules ==
  [][\A k \in SocketIds :
       (Closes(k) /\ conn.shouldReconnect) =>
         /\ conn'.pendingRequests = {}
         /\ \A id \in conn.pendingRequests : promises'[id].outcome = "Connection lost"
         /\ conn'.state = "disconnected"
         /\ conn'.reconnectTimer.set]_vars

\* C15: a request sent on an open socket is pending for at most 30 seconds:
\* its timer then removes the entry and rejects it with a timeout, and only
\* then; a promise that is settled stays as it is and a response whose id
\* is not pending settles nothing.
C15_TimeoutAndLateResponse ==
  [][\A id \in UUIDs :
       /\ (id \in conn.pendingRequests) <=> (promises[id].outcome = "pending")
       /\ id \in conn.pendingRequests => promises[id].elapsed <= REQUEST_TIMEOUT_MS
       /\ (promises'[id].outcome = "Request timed out" /\ promises[id] # promises'[id]) =>
            /\ promises[id].outcome = "pending"
            /\ promises[id].elapsed = REQUEST_TIMEOUT_MS
            /\ id \notin conn'.pendingRequests
       /\ promises[id].outcome \notin {"unsent", "pending"} => promises'[id] = promises[id]
       /\ promises[id].outcome = "unsent" =>
            promises'[id].outcome \in {"unsent", "pending", "WebSocket not connected"}]_vars

\* A request timed out on a connection that is still open.
C15_Witness ==
  /\ conn.state = "connected"
  /\ \E id \in UUIDs : promises[id].outcome = "Request timed out"

\* C16: from disconnect() until the next connect() no reconnect timer is
\* armed and no socket is opened, also when the close event of the socket
\* that disconnect() closed is delivered.
C16_NoReconnectAfterDisconnect ==
  [][~conn'.shouldReconnect =>
       /\ ~conn'.reconnectTimer.set
       /\ \A k \in SocketIds :
            sockets[k].readyState = "unused" => sockets'[k].readyState = "unused"]_vars

\* disconnect() closed a socket with a request pending, and the close event
\* of that socket has been delivered since.
C16_Witness ==
  /\ ~conn.shouldReconnect
  /\ FreeSockets = SocketIds
  /\ \E id \in UUIDs : promises[id].outcome = "Connection closed"

\* C18: whatever a listener does, every registered listener is invoked for
\* the event and the handler that dispatched it runs to its end.
C18_ListenersIsolated ==
  notified.kind # "none" =>
    /\ notified.invoked = notified.registered
    /\ notified.completed

\* ---------------------------------------------------------------------
\* WorkerBridge
\* ---------------------------------------------------------------------
AuthOk == \E k \in BridgeSocketIds : BridgeSocketMessage(k, "auth_ok")

Restarted == \E config \in WorkerUrls : start(config) \/ restart(config)

\* A reconnect timer of the bridge is armed in this step: there is one
\* after it that was not there before, or that follows a cleanup().
BridgeArms ==
  /\ bridge'.reconnectTimer.set
  /\ \/ bridge'.reconnectTimer # bridge.reconnectTimer
     \/ WorkerBridge_ReconnectTimerFires
     \/ Restarted

BridgeDelays == {1000, 2000, 4000, 8000, 16000, 30000}

C17_ErrorLeadsToDisconnected ==
  [][(bridge.status = "error" /\ bridge'.status # "error") =>
       bridge'.status = "disconnected"]_vars

\* ---------------------------------------------------------------------
\* Frames that fail
\* ---------------------------------------------------------------------
UnknownTypeFrames == {msg \in SyncFrames : msg.type = "bogus"}

\* C19: a sync message of an unknown type is answered with exactly one error
\* response, to its sender; nothing is broadcast, nothing stored changes and
\* the connections stay as they are.
C19_UnknownTypeRejected ==
  [][\A c \in ConnIds, msg \in UnknownTypeFrames :
       WebSocketMessage(c, msg) =>
         /\ sent' = <<[to |-> c,
                       msg |-> [type |-> "response", requestId |-> msg.requestId,
                                error |-> "Unknown message type"]]>>
         /\ sessions' = sessions
         /\ sandbox_sessions' = sandbox_sessions
         /\ projects' = projects
         /\ webSockets' = webSockets]_vars

\* An unknown type was just rejected while a peer and a stored session exist.
C19_Witness ==
  /\ Len(sent) = 1
  /\ sent[1].msg.type = "response"
  /\ "error" \in DOMAIN sent[1].msg
  /\ sent[1].msg.error = "Unknown message type"
  /\ \E c \in ConnIds : c # sent[1].to /\ webSockets[c].kind = "sync"
  /\ \E k \in SessionKeys : sessions[k].exists

\* C20: on the sync socket, the sandbox socket and the broker's control
\* socket a frame that is not JSON is answered with an error message to its
\* sender, changes no state and leaves the connection open.
C20_BadJsonAnswered ==
  [][/\ \A c \in ConnIds :
          WebSocketMessage(c, [type |-> "badjson"]) =>
            /\ Len(sent') = 1 /\ sent'[1].to = c /\ "error" \in DOMAIN sent'[1].msg
            /\ sessions' = sessions
            /\ webSockets' = webSockets
     /\ \A c \in SandboxConnIds :
          HandleSandboxMessage(c, "badjson") =>
            /\ sent' = <<[to |-> c, msg |-> [type |-> "error"]]>>
            /\ sandbox_sessions' = sandbox_sessions
            /\ webSockets' = webSockets
     /\ \A c \in ClientIds :
          BrokerMessage(c, "badjson") =>
            /\ Len(brokerSent') = 1 /\ brokerSent'[1].to = c
            /\ brokerSent'[1].msg.type = "error"
            /\ clients' = clients]_vars

\* ---------------------------------------------------------------------
\* REST actions, stored sessions and config tables
\* ---------------------------------------------------------------------
\* The number of frames of the given type the last handler sent to c.
Received(c, type) == Cardinality(FramesTo(c, type))

\* C21: a REST session action (new-chat, flag, unflag, rename, delete) that
\* succeeds sends exactly one broadcast to every connected sync client and
\* none to a sandbox-tagged connection; one that is rejected with 400 or
\* 404 sends nothing and leaves the stored sessions as they were.
C21_RestActionBroadcastsToAll ==
  [][\A pathname \in ActionPaths, body \in ActionBodies, uuid \in SessionKeys :
       HandleRestPost(pathname, body, uuid) =>
         /\ restResponse'.status \in {200, 201, 400, 404}
         /\ restResponse'.status \in {200, 201} =>
              /\ \A c \in ConnIds :
                   Received(c, "broadcast")' = IF webSockets[c].kind = "sync" THEN 1 ELSE 0
              /\ Len(sent') = Cardinality({c \in ConnIds : webSockets[c].kind = "sync"})
         /\ restResponse'.status \in {400, 404} =>
              /\ sent' = <<>>
              /\ sessions' = sessions
              /\ statuses' = statuses]_vars

\* A REST action succeeded while two sync clients and a sandbox-tagged
\* connection were connected, and both sync clients were sent the event.
C21_Witness ==
  /\ restResponse.status = 200
  /\ Cardinality({c \in ConnIds : webSockets[c].kind = "sync"}) = 2
  /\ \E c \in ConnIds : webSockets[c].kind = "sandbox"
  /\ Len(sent) = 2
  /\ \A i \in DOMAIN sent : sent[i].msg.type = "broadcast"

\* The sync commands that update a session, and the session they address.
UpdateFrames ==
  {msg \in SyncFrames : msg.type \in {"session:updateMeta", "session:updateSdkId",
                                      "session:clearMessages", "session:save"}}

Addressed(msg) ==
  IF msg.type \in {"session:save", "session:create"} THEN msg.data.id
  ELSE msg.data.sessionId

\* C22: a session that was created and then deleted reads as not found, and
\* an update command (session:updateMeta, session:updateSdkId,
\* session:clearMessages, session:save) addressed to it is answered with an
\* error and leaves the sessions table as it was.
C22_UpdateOfDeletedFails ==
  [][/\ \A k \in deleted : handleRestGet(k).status = 404
     /\ \A c \in ConnIds, msg \in UpdateFrames :
          (WebSocketMessage(c, msg) /\ Addressed(msg) \in deleted) =>
            /\ "error" \in DOMAIN sent'[1].msg
            /\ sessions' = sessions]_vars

\* A sync command that handleMessage carried out on session k.
Mutates(k) ==
  \E c \in ConnIds, msg \in SyncFrames :
    /\ msg.type \notin {"badjson", "bogus"}
    /\ WebSocketMessage(c, msg)
    /\ ~handleMessageThrows(msg)
    /\ Addressed(msg) = k

C24_ServerComputedFields ==
  [][\A c \in ConnIds, msg \in SyncFrames :
       (msg.type \in {"session:create", "session:save"} /\ WebSocketMessage(c, msg)
        /\ ~handleMessageThrows(msg)) =>
         LET read == handleRestGet(msg.data.id)'
         IN  /\ read.body.createdAt = "server"
             /\ read.body.messageCount = Len(read.body.messages)]_vars

\* Two statuses:save commands in a row that carried the same payload.
SameTwice(i) ==
  /\ i \in DOMAIN statusLog /\ i + 1 \in DOMAIN statusLog
  /\ statusLog[i].payload = statusLog[i + 1].payload

QuerySettled(q) ==
  /\ queries[q].replies = IF queries[q].phase = "replied" THEN 1 ELSE 0
  /\ queries[q].phase = "replied" => ~queries[q].entry /\ ~queries[q].timer
  /\ queries[q].phase = "waiting" =>
       /\ queries[q].entry /\ queries[q].timer
       /\ queries[q].elapsed <= QUERY_TIMEOUT_MS

\* C26: every query request gets exactly one HTTP reply; a query whose
\* timeout runs out (no query_response with its id in 5 seconds) is replied
\* 504; and whatever the outcome (answered, timed out, client gone) the
\* reply leaves no pendingQueries entry and no armed timer.
C26_QueryRepliedOnce ==
  /\ [](\A q \in QueryIds : QuerySettled(q))
  /\ [][\A q \in QueryIds :
          /\ BrokerQueryTimeout(q) => queries'[q].status = 504
          /\ queries[q].phase = "replied" => queries'[q] = queries[q]]_vars
  /\ \A q \in QueryIds :
       (queries[q].phase = "waiting") ~> (queries[q].phase = "replied")

\* A query timed out after every client had gone, and another was answered.
C26_Witness ==
  /\ \E q \in QueryIds : /\ queries[q].phase = "replied"
                          /\ queries[q].status = 504
                          /\ queries[q].elapsed = QUERY_TIMEOUT_MS
  /\ \E q \in QueryIds : queries[q].phase = "replied" /\ queries[q].status = 200
  /\ \A c \in ClientIds : ~clients[c].connected

\* The clients the last handler sent an action or a query to.
Relayed == {brokerSent[i].to : i \in {j \in DOMAIN brokerSent :
                                       brokerSent[j].msg.type \in {"action", "query"}}}

\* C27: an action or a query is sent only to a client that has
\* authenticated, and an action request that finds no authenticated client
\* is answered 503 with nothing sent.
C27_RelayOnlyToAuthenticated ==
  /\ [](\A c \in Relayed : clients[c].connected /\ clients[c].authenticated)
  /\ [][(handleAction("craftagents://")
          /\ \A c \in ClientIds : ~(clients[c].connected /\ clients[c].authenticated)) =>
           brokerResponse' = 503 /\ brokerSent' = <<>>]_vars

\* An action was relayed to the authenticated client and not to the
\* connected client that has not authenticated.
C27_Witness ==
  /\ brokerResponse = 200
  /\ \E c \in ClientIds : clients[c].connected /\ ~clients[c].authenticated
  /\ \E c \in Relayed : clients[c].authenticated

\* C28: a client whose auth message carried a wrong key is sent auth_error,
\* and from then on, until the close that follows removes it from the map,
\* it is sent no action and no query.
C28_RejectedReceivesNothing ==
  /\ [](\A c \in Relayed : ~clients[c].closeTimer)
  /\ [][\A c \in ClientIds :
          /\ BrokerMessage(c, "auth:wrong") =>
               brokerSent' = <<[to |-> c, msg |-> [type |-> "auth_error"]]>>
          /\ BrokerRejectTimerFires(c) => ~clients'[c].connected]_vars

\* ---------------------------------------------------------------------
\* Credentials at rest and in the project responses
\* ---------------------------------------------------------------------
\* The access tokens of the credentials that are stored.
Secrets == {ValidCredential.accessToken, ShortCredential.accessToken}

\* A github object of a project get that is null or has metadata fields
\* only, none of them holding an access token.
MetadataOnly(info) ==
  \/ info = [null |-> TRUE]
  \/ /\ DOMAIN info \subseteq {"username", "userId", "scope", "authenticatedAt"}
     /\ \A f \in DOMAIN info \cap {"username", "scope"} : info[f] \notin Secrets

\* C29: the credential column of a project holds nothing or the output of
\* encryptCredential, never the plaintext; the project list and the project
\* get carry no access token, only whether a credential is there and its
\* metadata.
C29_SecretNeverExposed ==
  \A r \in RepoKeys :
    /\ projects[r].github_credential = NoCredential
         \/ /\ projects[r].github_credential.sealed
            /\ projects[r].github_credential.key \in EncryptionKeys
    /\ projects[r].exists =>
         /\ DOMAIN GetProjects[r] = {"repoKey", "hasGitHubAuth"}
         /\ GetProjects[r].repoKey = r
         /\ GetProjects[r].hasGitHubAuth = (projects[r].github_credential # NoCredential)
         /\ GetProject(r).status = 200
         /\ DOMAIN GetProject(r).body = {"repoKey", "github"}
         /\ GetProject(r).body.repoKey = r
         /\ MetadataOnly(GetProject(r).body.github)

\* A project whose stored credential decrypts: the list reports it and the
\* get returns its metadata.
C29_Witness ==
  \E r \in RepoKeys :
    /\ projects[r].exists
    /\ GetProjects[r].hasGitHubAuth
    /\ "username" \in DOMAIN GetProject(r).body.github
    /\ GetProject(r).body.github.username = "octocat"


\* ---------------------------------------------------------------------
\* C30: the frames of one execute request
\* ---------------------------------------------------------------------
RECURSIVE ArrivedLines(_)
\* The stdout lines the stream has delivered, in arrival order.
ArrivedLines(arrived) ==
  IF arrived = <<>> THEN <<>>
  ELSE ArrivedLines(SubSeq(arrived, 1, Len(arrived) - 1)) \o
         (IF arrived[Len(arrived)].type = "stdout" THEN arrived[Len(arrived)].data ELSE <<>>)

\* The data of the stream frames sent, in sending order.
StreamData(out) ==
  LET IsStream(f) == f.type = "stream"
      frames == SelectSeq(out, IsStream)
  IN  [i \in DOMAIN frames |-> frames[i].data]

\* A finished run's last frame is its complete event with the stream's exit
\* code, and every error event or rejection of the stream gave an error frame.
CompleteLastAndErrors(run) ==
  LET IsError(e) == e.type \in {"error", "throw"}
      IsErrorFrame(f) == f.type = "error"
      last == run.arrived[Len(run.arrived)]
  IN  /\ (run.arrived # <<>> /\ last.type = "complete") =>
          /\ run.out # <<>>
          /\ run.out[Len(run.out)] = [type |-> "complete", exitCode |-> last.exitCode]
      /\ (run.pc # "failed") =>
          Len(SelectSeq(run.out, IsErrorFrame)) = Len(SelectSeq(run.arrived, IsError))
      /\ (run.pc = "failed") => run.out = <<[type |-> "error"]>>

KeepAliveAck(frame) == IF frame = "ping" THEN "pong" ELSE "heartbeat_ack"

\* A keep-alive was handled on connection c while its execute is streaming.
KeepAliveStep(c, frame) ==
  /\ execRun[c].pc = "streaming"
  /\ HandleSandboxMessage(c, frame)

\* C31: while an execute is streaming on a sandbox connection a ping or
\* heartbeat on it can be handled at once, is answered with exactly one
\* pong / heartbeat_ack, and leaves the execution and the frames of its
\* event stream as they were, the stream going on afterwards.
C31_KeepAliveDoesNotDisturb ==
  /\ [](\A c \in SandboxConnIds :
          (execRun[c].pc = "streaming" /\ webSockets[c].kind = "sandbox") =>
            /\ ENABLED HandleSandboxMessage(c, "ping")
            /\ ENABLED HandleSandboxMessage(c, "heartbeat"))
  /\ [][\A c \in SandboxConnIds, frame \in {"ping", "heartbeat"} :
          KeepAliveStep(c, frame) =>
            /\ sent' = <<[to |-> c, msg |-> [type |-> KeepAliveAck(frame)]]>>
            /\ execRun' = execRun
            /\ webSockets' = webSockets
            /\ (ENABLED HandleStreamEvent(c, [type |-> "complete", exitCode |-> 0]))']_vars

\* A pong was sent between two events of a streaming execute.
C31_Witness ==
  \E c \in SandboxConnIds :
    /\ execRun[c].pc = "streaming"
    /\ Len(execRun[c].arrived) = 1
    /\ execRun[c].out # <<>>
    /\ sent = <<[to |-> c, msg |-> [type |-> "pong"]]>>

\* ---------------------------------------------------------------------
\* C32: signed file URLs
\* ---------------------------------------------------------------------
\* The request's signature is the one made under the API key for the path
\* it asks for and its exp, and time t is not past exp.
SignedFor(request, t) ==
  /\ request.exp.kind = "text"
  /\ ParseInt(request.exp.text) # 0 - 1
  /\ t <= ParseInt(request.exp.text) * 1000
  /\ request.sig = [kind |-> "hmac", secret |-> API_KEY, path |-> request.path,
                     exp |-> request.exp.text]

\* C32: a GET /files request that skips the API key check because it has
\* sig and exp parameters is served only if its signature matches the
\* requested path and the time is not past exp; any other is answered 403.
C32_SignedUrlOrForbidden ==
  LET request == fileResponse.request
  IN  (request.route # "none" /\ request.sig.kind # "absent" /\ request.exp.kind # "absent")
        => IF SignedFor(request, fileResponse.at)
           THEN fileResponse.status # 403
           ELSE fileResponse.status = 403

\* ---------------------------------------------------------------------
\* C33: sync traffic during an execute
\* ---------------------------------------------------------------------
\* An execute is streaming on some sandbox connection.
Streaming == \E c \in SandboxConnIds : execRun[c].pc = "streaming"

\* C33: while an execute is streaming on a sandbox connection, a command
\* arriving on a sync connection of the workspace can be handled at once,
\* and handling it sends its response (the requestId of the command) to
\* that connection and leaves the execute as it was.
C33_SyncNotStalledByExecute ==
  /\ [](Streaming =>
          \A d \in ConnIds, msg \in HeaderFrames :
            webSockets[d].kind = "sync" => ENABLED WebSocketMessage(d, msg))
  /\ [][\A d \in ConnIds, msg \in HeaderFrames :
          (Streaming /\ WebSocketMessage(d, msg)) =>
            /\ sent' # <<>>
            /\ sent'[1].to = d
            /\ sent'[1].msg.type = "response"
            /\ sent'[1].msg.requestId = msg.requestId
            /\ execRun' = execRun]_vars

\* Between two events of a streaming execute a sync command was carried
\* out: answered with its result and broadcast to the other sync client.
C33_Witness ==
  /\ \E c \in SandboxConnIds : execRun[c].pc = "streaming" /\ Len(execRun[c].arrived) = 1
  /\ Len(sent) = 2
  /\ sent[1].msg.type = "response"
  /\ "data" \in DOMAIN sent[1].msg
  /\ sent[2].msg.type = "broadcast"

\* ---------------------------------------------------------------------
\* C34: mutations of one session are serialized
\* ---------------------------------------------------------------------
\* The fields a mutation of session id sets: those of a sync command, and
\* those of a REST action.
SyncUpdates(msg) ==
  IF msg.type = "session:updateMeta" THEN msg.data.updates
  ELSE [sdkSessionId |-> msg.data.sdkSessionId]

RestUpdates(pathname, body) ==
  CASE pathname = "/actions/flag-session" -> [isFlagged |-> TRUE]
    [] pathname = "/actions/unflag-session" -> [isFlagged |-> FALSE]
    [] OTHER -> [name |-> body.name]

\* The row of session id after the step is the row before it with exactly
\* the fields of upd set: what any earlier mutation wrote elsewhere is kept.
AppliedToLatest(id, upd) ==
  /\ sessions'[id].exists
  /\ sessions'[id].messages = sessions[id].messages
  /\ DOMAIN sessions'[id].header = DOMAIN sessions[id].header \cup DOMAIN upd
  /\ \A k \in DOMAIN sessions'[id].header :
       sessions'[id].header[k] = IF k \in DOMAIN upd THEN upd[k] ELSE sessions[id].header[k]

\* C34: each mutation of a session, a sync command or a REST action, is
\* applied in one step to the record the mutations before it left, so two
\* mutations arriving together end in the record of one after the other and
\* neither update is lost.
C34_MutationsSerialized ==
  [][/\ \A d \in ConnIds, msg \in HeaderFrames :
          (/\ msg.type \in {"session:updateMeta", "session:updateSdkId"}
           /\ sessions[msg.data.sessionId].exists
           /\ WebSocketMessage(d, msg))
            => AppliedToLatest(msg.data.sessionId, SyncUpdates(msg))
      /\ \A pathname \in {"/actions/flag-session", "/actions/unflag-session",
                            "/actions/rename-session"},
            body \in ActionBodies, uuid \in SessionKeys :
          (/\ body.sessionId # ""
           /\ pathname = "/actions/rename-session" => body.name # ""
           /\ sessions[body.sessionId].exists
           /\ HandleRestPost(pathname, body, uuid))
            => AppliedToLatest(body.sessionId, RestUpdates(pathname, body))]_vars

\* A session created as n1 that a sync command renamed and gave an sdk id
\* and a REST action flagged: the record carries all three updates.
C34_Witness ==
  \E id \in SessionKeys :
    /\ sessions[id].exists
    /\ "isFlagged" \in DOMAIN sessions[id].header
    /\ sessions[id].header.isFlagged
    /\ sessions[id].header.name = "n2"
    /\ sessions[id].header.sdkSessionId = "sdk1"
    /\ restResponse.status = 200

\* ---------------------------------------------------------------------
\* C35: events of a replaced bridge socket
\* ---------------------------------------------------------------------
\* C35: a close or error event of a socket that restart() or a reconnect
\* has replaced (it is not this.ws any more) changes neither the status nor
\* the reconnect timer, so a bridge that is connected stays connected on
\* its live socket while that socket is open.
C35_StaleSocketEventsIgnored ==
  [][\A k \in BridgeSocketIds :
       (k # bridge.ws /\ (BridgeSocketClose(k) \/ BridgeSocketError(k))) =>
         /\ bridge'.status = bridge.status
         /\ bridge'.reconnectTimer = bridge.reconnectTimer
         /\ bridge'.ws = bridge.ws]_vars

\* ---------------------------------------------------------------------
\* C36: CloudConnection after disconnect()
\* ---------------------------------------------------------------------
\* C36: from disconnect() until the next connect() (shouldReconnect is
\* false exactly then) the state is disconnected and the connection holds
\* no socket, also when a socket that was connecting opens meanwhile.
C36_DisconnectedUntilConnect ==
  ~conn.shouldReconnect => (conn.state = "disconnected" /\ conn.ws = NoSocket)

\* ---------------------------------------------------------------------
\* C37: the promises of CloudConnection.send()
\* ---------------------------------------------------------------------
\* The request's promise is settled.
IsSettled(id) == promises[id].outcome \notin {"unsent", "pending"}

\* C37: the pending map holds exactly the requests whose promise is not
\* settled yet; a settled promise keeps its outcome (it is settled once);
\* and every request sent is settled, by its response, by its timeout
\* after REQUEST_TIMEOUT_MS at the latest, or by the loss of the connection.
C37_SettledExactlyOnce ==
  /\ [](conn.pendingRequests = {id \in UUIDs : promises[id].outcome = "pending"})
  /\ [][\A id \in UUIDs : IsSettled(id) => promises'[id] = promises[id]]_vars
  /\ \A id \in UUIDs : (promises[id].outcome = "pending") ~> IsSettled(id)

\* One request settled by its timeout and one by the loss of the
\* connection, the pending map empty again.
C37_Witness ==
  /\ conn.pendingRequests = {}
  /\ \E a, b \in UUIDs :
       /\ promises[a].outcome = "Request timed out"
       /\ promises[b].outcome = "Connection lost"

\* ---------------------------------------------------------------------
\* C38: who may answer a broker query
\* ---------------------------------------------------------------------
\* C38: a query_response with the id of a pending query that comes from a
\* connection other than the authenticated client the query was sent to
\* leaves the query pending.
C38_OnlyTargetResolves ==
  [][\A c \in ClientIds, q \in QueryIds, error \in QueryErrors :
       (/\ queries[q].phase = "waiting"
        /\ ~(clients[c].authenticated /\ c = queries[q].target)
        /\ BrokerQueryResponse(c, q, error))
         => queries'[q] = queries[q]]_vars

\* ---------------------------------------------------------------------
\* C39: one provider per workspace
\* ---------------------------------------------------------------------
\* The providers of the workspace that hold or are opening a connection.
LiveProviders == {p \in ProviderIds : providerObjects[p] \in {"connecting", "connected"}}

\* C39: the manager never has two providers for the workspace, the
\* getProvider calls that have returned hold the same instance while it is
\* live, and a provider that is connected is the one in the providers map.
C39_SingleProvider ==
  /\ Cardinality(LiveProviders) <= 1
  /\ \A p \in ProviderIds : providerObjects[p] = "connected" => providers = p
  /\ \A j, k \in CallIds :
       (/\ getProviderCalls[j].pc = "returned"
        /\ getProviderCalls[k].pc = "returned"
        /\ getProviderCalls[j].provider \in LiveProviders
        /\ getProviderCalls[k].provider \in LiveProviders)
         => getProviderCalls[j].provider = getProviderCalls[k].provider

\* ---------------------------------------------------------------------
\* C40: the sweep alarm while sessions are active
\* ---------------------------------------------------------------------
\* C40: whenever a sandbox session row has a status other than expired and
\* no createSandboxSession call is in progress, an alarm is scheduled (or
\* the alarm handler is running and has its rescheduling ahead).
C40_AlarmWhileActive ==
  (/\ ActiveSessions(sandbox_sessions) > 0
   /\ \A s \in SessionIds : createRun[s].pc = "none")
    => (alarmAt.set \/ alarmRun.pc # "idle")

====
